---- MODULE Spec2Model ----
(***************************************************************************)
(* MetaCore airdrop bot: the conversational front-end (bot.py), the two    *)
(* settlement workers (process.py, payment_process.py) and the records     *)
(* they share in the hosted store.                                         *)
(*                                                                         *)
(* Message texts are sequences of one-character strings, so that strip(),  *)
(* lower(), float() and the regular expressions are computed, not assumed. *)
(* Amounts are whole tokens.  Time is kept as ages: the seconds since a    *)
(* user's last accepted action (capped at the rate-limit window) and a     *)
(* flag telling that a record's processed_at is older than the staleness   *)
(* window.                                                                 *)
(***************************************************************************)
EXTENDS Integers, Sequences, FiniteSets, Bags, TLC

(***************************************************************************)
(* Bounds of the model                                                     *)
(***************************************************************************)
MaxWithdrawals == 2      \* rows the withdrawals table may hold
MaxCallbacks == 2        \* approve / reject button presses in one behaviour
MaxCommands == 1         \* /addbalance commands in one behaviour
MaxCalls == 3
MaxSettings == 1
MaxRefused == 1            \* calls of credit_referrer on its own, per pair
TREASURY0 == 6000        \* tokens in the admin wallet at the start
MaxRows == 6             \* rows of the table a worker's select runs over

(***************************************************************************)
(* Program constants                                                       *)
(***************************************************************************)
ADMIN_ID == 9            \* bot.py: 6950876107, shortened to fit TLC's integers
RATE_LIMIT_SECONDS == 2
SIGNUP_BONUS == 1000
REFERRAL_BONUS == 4000
GROUP_JOIN_BONUS == 500
MIN_WITHDRAW_AMOUNT == 4000
BATCH_LIMIT == 5
NETWORK_NAME == "BSC Testnet"

Users == {1, 2}
NoId == 0

\* class UserState; "unset" is a user id missing from the user_states dict
MAIN == "main"
JOINING_GROUPS == "joining_groups"
SETTING_TELEGRAM == "setting_telegram"
SETTING_TWITTER == "setting_twitter"
SETTING_WALLET == "setting_wallet"
WITHDRAWING == "withdrawing"
UNSET == "unset"

(***************************************************************************)
(* Texts                                                                   *)
(***************************************************************************)
Digits == <<"0", "1", "2", "3", "4", "5", "6", "7", "8", "9">>
LowerLetters == <<"a", "b", "c", "d", "e", "f", "g", "h", "i", "j", "k", "l", "m",
                  "n", "o", "p", "q", "r", "s", "t", "u", "v", "w", "x", "y", "z">>
UpperLetters == <<"A", "B", "C", "D", "E", "F", "G", "H", "I", "J", "K", "L", "M",
                  "N", "O", "P", "Q", "R", "S", "T", "U", "V", "W", "X", "Y", "Z">>

Range(s) == {s[i] : i \in DOMAIN s}
IndexOf(c, s) == CHOOSE i \in DOMAIN s : s[i] = c

DigitChars == Range(Digits)
WordChars == Range(LowerLetters) \cup Range(UpperLetters) \cup DigitChars \cup {"_"}
HexChars == DigitChars \cup {"a", "b", "c", "d", "e", "f", "A", "B", "C", "D", "E", "F"}

\* str.lower() that leaves every character as it is
Lower_AsTyped(s) == s

\* str.lower()
LowerChar(c) == IF c \in Range(UpperLetters) THEN LowerLetters[IndexOf(c, UpperLetters)] ELSE c
Lower(s) == [i \in DOMAIN s |-> LowerChar(s[i])]

\* str.strip()
RECURSIVE LStrip(_)
LStrip(s) == IF s # <<>> /\ Head(s) = " " THEN LStrip(Tail(s)) ELSE s
RECURSIVE RStrip(_)
RStrip(s) == IF s # <<>> /\ s[Len(s)] = " " THEN RStrip(SubSeq(s, 1, Len(s) - 1)) ELSE s
Strip(s) == RStrip(LStrip(s))

\* str.replace(',', '')
RECURSIVE DropCommas(_)
DropCommas(s) ==
    IF s = <<>> THEN <<>>
    ELSE IF Head(s) = "," THEN DropCommas(Tail(s))
    ELSE <<Head(s)>> \o DropCommas(Tail(s))

StartsWith(s, p) == Len(s) >= Len(p) /\ SubSeq(s, 1, Len(p)) = p

RECURSIVE DigitsValue(_)
DigitsValue(s) ==
    IF s = <<>> THEN 0
    ELSE 10 * DigitsValue(SubSeq(s, 1, Len(s) - 1)) + (IndexOf(s[Len(s)], Digits) - 1)

AllDigits(s) == s # <<>> /\ \A i \in DOMAIN s : s[i] \in DigitChars

\* int(text) / float(text) on the literals the model feeds in: an optional sign
\* and decimal digits.  ok = FALSE is Python's ValueError.
ParseNumber(s) ==
    LET neg == s # <<>> /\ Head(s) = "-"
        body == IF s # <<>> /\ Head(s) \in {"-", "+"} THEN Tail(s) ELSE s
    IN  IF AllDigits(body)
        THEN [ok |-> TRUE, val |-> IF neg THEN 0 - DigitsValue(body) ELSE DigitsValue(body)]
        ELSE [ok |-> FALSE, val |-> 0]

Chars(n, c) == [i \in 1..n |-> c]

\* float('nan'): every ordering comparison with it is False, arithmetic keeps it
NaN == -1000000
Lt(a, b) == a # NaN /\ b # NaN /\ a < b
Sub(a, b) == IF a = NaN \/ b = NaN THEN NaN ELSE a - b

\* reply-keyboard labels; "^" stands for the label's leading emoji
BTN_REFERRAL == <<"^", " ", "R", "e", "f", "e", "r", "r", "a", "l", " ", "L", "i", "n", "k">>
BTN_BALANCE == <<"^", " ", "B", "a", "l", "a", "n", "c", "e">>
BTN_SET_WALLET == <<"^", " ", "S", "e", "t", " ", "W", "a", "l", "l", "e", "t">>
BTN_WITHDRAW == <<"^", " ", "W", "i", "t", "h", "d", "r", "a", "w">>
BTN_PROFILE == <<"^", " ", "M", "y", " ", "P", "r", "o", "f", "i", "l", "e">>
BTN_HELP == <<"^", " ", "H", "e", "l", "p">>
BTN_JOINED == <<"^", " ", "I", "'", "v", "e", " ", "J", "o", "i", "n", "e", "d", " ",
                "A", "l", "l", " ", "G", "r", "o", "u", "p", "s">>
BTN_BACK == <<"^", " ", "B", "a", "c", "k", " ", "t", "o", " ", "M", "e", "n", "u">>

TXT_HANDLE == <<"@", "a", "l", "i", "c", "e", "_", "1">>
TXT_SHORT == <<"b", "o", "b">>
TXT_WALLET == <<"0", "x">> \o Chars(40, "a")
TXT_ALL == <<"A", "l", "l">>
TXT_4000 == <<"4", ",", "0", "0", "0">>
TXT_3000 == <<"3", "0", "0", "0">>
TXT_5500 == <<" ", "5", "5", "0", "0">>
TXT_9000 == <<"9", "0", "0", "0">>
TXT_NEG == <<"-", "4", "0", "0", "0">>

ARG_NONE == <<>>
ArgRef(u) == <<"r", "e", "f", Digits[u + 1]>>

\* update.effective_user.username of each sender (None for user 2)
USERNAME == [u \in Users |-> IF u = 1 THEN <<"a", "l", "i", "c", "e">> ELSE <<>>]

(***************************************************************************)
(* State                                                                   *)
(***************************************************************************)
VARIABLES
    users,             \* table users: id -> row (exists = FALSE: no row)
    withdrawals,       \* table withdrawals: the rows in order of creation, id = index
    referrals,         \* table referrals: bag of <<inviter, referred>> rows
    transactions,      \* table transactions: bag of audit rows
    user_states,       \* bot.py user_states
    user_last_action,  \* bot.py user_last_action, as seconds since, capped at the window
    bot,               \* the front-end's position inside approve_withdrawal
    workers,           \* each settlement worker process: position, batch, cursor
    treasury,          \* token balance of the admin wallet on chain
    delivered,         \* withdrawal id -> transfers confirmed on chain for it
    inflight,          \* transfers submitted and not yet resolved: set of <<actor, id>>
    admin_ops,         \* admin button presses and commands handled so far
    referrer_calls,    \* calls of credit_referrer made on their own, per pair
    settings,          \* table settings: its one row
    tasks              \* handler coroutines dispatched concurrently on the event loop

vars == <<users, withdrawals, referrals, transactions, user_states, user_last_action,
          bot, workers, treasury, delivered, inflight, admin_ops, referrer_calls,
          settings, tasks>>

\* get_settings: the row of the settings table, which holds the values of its fallback
DefaultSettings ==
    [signup_bonus |-> SIGNUP_BONUS, referral_bonus |-> REFERRAL_BONUS,
     group_join_bonus |-> GROUP_JOIN_BONUS, min_withdraw_amount |-> MIN_WITHDRAW_AMOUNT]

\* handler coroutines of updates dispatched without waiting for one another
Tasks == {"t1", "t2"}
NoTask == [pc |-> "none", u |-> NoId, text |-> <<>>, since |-> 0, gap |-> 0]

NoUser == [exists |-> FALSE, balance |-> 0, joined_all_groups |-> FALSE,
           has_received_group_bonus |-> FALSE, telegram_handle |-> <<>>,
           twitter_handle |-> <<>>, metacore_address |-> <<>>, invited_by |-> NoId]

WIds == 1..MaxWithdrawals
Workers == {"w1", "w2"}                       \* settlement worker processes
Scripts == {"process", "payment_process"}     \* what a worker process runs

\* the store and the session map, as one value the handlers transform
Cur == [users |-> users, wd |-> withdrawals, refs |-> referrals, tx |-> transactions,
        st |-> user_states, set |-> settings]

TxRow(u, type, amount, ref) == [user_id |-> u, type |-> type, amount |-> amount, ref |-> ref]
LogTx(tx, row) == tx (+) SetToBag({row})
CountTx(tx, row) == CopiesIn(row, tx)

(***************************************************************************)
(* The store's remote procedures add_balance and subtract_balance: one     *)
(* atomic update of the balance plus one audit row; they raise for a user  *)
(* that has no row.                                                        *)
(***************************************************************************)
RpcRaises(S, u) == ~(u \in Users /\ S.users[u].exists)
RpcAddBalance(S, u, amount, type, ref) ==
    [S EXCEPT !.users[u].balance = @ + amount,
              !.tx = LogTx(@, TxRow(u, type, amount, ref))]
RpcSubtractBalance(S, u, amount, type, ref) ==
    [S EXCEPT !.users[u].balance = Sub(@, amount),
              !.tx = LogTx(@, TxRow(u, type, Sub(0, amount), ref))]

(***************************************************************************)
(* bot.py: helpers                                                         *)
(***************************************************************************)
Min(a, b) == IF a < b THEN a ELSE b

\* time.time() moves on by d seconds before the next update is handled
Elapse(ula, d) == [u \in DOMAIN ula |-> Min(ula[u] + d, RATE_LIMIT_SECONDS)]

\* a rate limit that lets every update through
rate_limit_check_Open(ula, u) == TRUE

rate_limit_check(ula, u) == ~(ula[u] < RATE_LIMIT_SECONDS)
\* rate_limit_check without the assignment of line 88
Stamp_Never(ula, u) == ula

Stamp(ula, u) == [ula EXCEPT ![u] = 0]

\* the pattern of line 212 without its length: '0x' and hexadecimal characters
is_valid_bsc_address_AnyLength(address) ==
    /\ Len(address) >= 2
    /\ SubSeq(address, 1, 2) = <<"0", "x">>
    /\ \A i \in 3..Len(address) : address[i] \in HexChars

\* re.match(r'^0x[a-fA-F0-9]{40}$', address)
is_valid_bsc_address(address) ==
    /\ Len(address) = 42
    /\ SubSeq(address, 1, 2) = <<"0", "x">>
    /\ \A i \in 3..42 : address[i] \in HexChars

StripAt(handle) == IF StartsWith(handle, <<"@">>) THEN Tail(handle) ELSE handle

\* the pattern of line 218 as {1,32}
is_valid_telegram_handle_NoMinimum(handle) ==
    LET h == StripAt(handle)
    IN  Len(h) >= 1 /\ Len(h) <= 32 /\ \A i \in DOMAIN h : h[i] \in WordChars

is_valid_telegram_handle(handle) ==
    LET h == StripAt(handle)
    IN  Len(h) >= 5 /\ Len(h) <= 32 /\ \A i \in DOMAIN h : h[i] \in WordChars
is_valid_twitter_handle(handle) ==
    LET h == StripAt(handle)
    IN  Len(h) >= 1 /\ Len(h) <= 15 /\ \A i \in DOMAIN h : h[i] \in WordChars

StateOf(st, u) == IF st[u] = UNSET THEN MAIN ELSE st[u]

\* the lookup of lines 170-172 finding no row
ReferralExists_Never(refs, inviter, referred) == FALSE

\* credit_referrer: nothing when the pair has a row; else the bonus, then the row
ReferralExists(refs, inviter, referred) == CopiesIn(<<inviter, referred>>, refs) > 0
credit_referrer(S, inviter, referred) ==
    IF ReferralExists(S.refs, inviter, referred) THEN S
    ELSE IF RpcRaises(S, inviter) THEN S
    ELSE [RpcAddBalance(S, inviter, S.set.referral_bonus, "referral", referred)
            EXCEPT !.refs = @ (+) SetToBag({<<inviter, referred>>})]

\* create_user: the row with the signup bonus, its audit row, the referrer's credit
\* f is the remote write that raises (0: none, 1: the insert into users, 2: the
\* insert into transactions); created is whether a row is returned, not None
create_user_raising(S, u, invited_by, f) ==
    LET row == [NoUser EXCEPT !.exists = TRUE, !.balance = S.set.signup_bonus,
                              !.telegram_handle = USERNAME[u], !.invited_by = invited_by]
        S0 == [S EXCEPT !.users[u] = row]
        S1 == [S0 EXCEPT !.tx = LogTx(@, TxRow(u, "signup", S.set.signup_bonus, NoId))]
    IN  IF f = 1 THEN [S |-> S, created |-> FALSE]
        ELSE IF f = 2 THEN [S |-> S0, created |-> FALSE]
        ELSE [S |-> IF invited_by # NoId THEN credit_referrer(S1, invited_by, u) ELSE S1,
              created |-> TRUE]

create_user(S, u, invited_by) == create_user_raising(S, u, invited_by, 0).S

\* the payload read without the test of line 241
InvitedBy_SelfAllowed(u, arg) ==
    IF StartsWith(arg, <<"r", "e", "f">>)
    THEN LET n == ParseNumber(SubSeq(arg, 4, Len(arg)))
         IN  IF n.ok THEN n.val ELSE NoId
    ELSE NoId

\* start: the referral payload 'ref<id>'
InvitedBy(u, arg) ==
    IF StartsWith(arg, <<"r", "e", "f">>)
    THEN LET n == ParseNumber(SubSeq(arg, 4, Len(arg)))
         IN  IF n.ok /\ n.val # u THEN n.val ELSE NoId
    ELSE NoId

handle_join_groups(S, u) == [S EXCEPT !.st[u] = JOINING_GROUPS]

\* start; f is the remote write of create_user that raises
start_raising(S, u, arg, f) ==
    LET db_user == S.users[u]
        new == create_user_raising(S, u, InvitedBy(u, arg), f)
    IN  IF ~db_user.exists
        THEN IF new.created THEN [new.S EXCEPT !.st[u] = SETTING_TELEGRAM] ELSE new.S
        ELSE IF ~db_user.joined_all_groups
        THEN IF db_user.telegram_handle = <<>> THEN [S EXCEPT !.st[u] = SETTING_TELEGRAM]
             ELSE IF db_user.twitter_handle = <<>> THEN [S EXCEPT !.st[u] = SETTING_TWITTER]
             ELSE handle_join_groups(S, u)
        ELSE [S EXCEPT !.st[u] = MAIN]

start(S, u, arg) == start_raising(S, u, arg, 0)

process_telegram_handle(S, u, text) ==
    LET handle == Strip(text)
    IN  IF is_valid_telegram_handle(handle)
        THEN [S EXCEPT !.users[u].telegram_handle = IF S.users[u].exists THEN StripAt(handle) ELSE @,
                       !.st[u] = SETTING_TWITTER]
        ELSE S

process_twitter_handle(S, u, text) ==
    LET handle == Strip(text)
    IN  IF is_valid_twitter_handle(handle)
        THEN handle_join_groups(
                 [S EXCEPT !.users[u].twitter_handle = IF S.users[u].exists THEN StripAt(handle) ELSE @],
                 u)
        ELSE S

\* REQUIRED_GROUPS, and what get_chat_member answers for each user: user 1 is in
\* every group, user 2 has left the second one
REQUIRED_GROUPS == <<"group1", "group2", "group3">>
MEMBER_STATUS ==
    [u \in Users |-> [i \in DOMAIN REQUIRED_GROUPS |->
                        IF u = 2 /\ i = 2 THEN "left" ELSE "member"]]

\* what get_chat_member can answer: ChatMember.status, or the call raises
ROLES == {"creator", "administrator", "member", "restricted", "left", "kicked"}
QUERY_FAILED == "raised"
Answers == [DOMAIN REQUIRED_GROUPS -> ROLES \cup {QUERY_FAILED}]

\* check_group_membership on the answers of get_chat_member, group by group:
\* False at the first group whose query raises or answers 'left' or 'kicked'
check_group_membership_on(answer) ==
    \A i \in DOMAIN REQUIRED_GROUPS :
        answer[i] # QUERY_FAILED /\ answer[i] \notin {"left", "kicked"}

check_group_membership(u) == check_group_membership_on(MEMBER_STATUS[u])

\* verify_group_membership line 441: "if True:" stands where the membership check belongs
GroupCheckPasses(u) == TRUE

\* the flag of line 432 never read as set
AlreadyHasGroupBonus_Never(user) == FALSE

AlreadyHasGroupBonus(user) == user.has_received_group_bonus

\* verify_group_membership; f is the remote write that raises (0: none, 1: the
\* update of the two flags, 2: add_balance)
verify_group_membership_raising(S, u, f) ==
    LET user == S.users[u]
        flagged == [S EXCEPT !.users[u].joined_all_groups = TRUE,
                             !.users[u].has_received_group_bonus = TRUE]
    IN  IF ~user.exists THEN S
        ELSE IF AlreadyHasGroupBonus(user) THEN [S EXCEPT !.st[u] = MAIN]
        ELSE IF GroupCheckPasses(u)
        THEN IF f = 1 THEN S
             ELSE IF f = 2 THEN flagged
             ELSE [RpcAddBalance(flagged, u, S.set.group_join_bonus, "group_join", NoId)
                     EXCEPT !.st[u] = MAIN]
        ELSE S

verify_group_membership(S, u) == verify_group_membership_raising(S, u, 0)

handle_set_wallet(S, u) == [S EXCEPT !.st[u] = SETTING_WALLET]

process_wallet_address(S, u, text) ==
    LET address == Strip(text)
    IN  IF is_valid_bsc_address(address)
        THEN [S EXCEPT !.users[u].metacore_address = IF S.users[u].exists THEN address ELSE @,
                       !.st[u] = MAIN]
        ELSE S

\* handle_withdraw without the test of line 586
handle_withdraw_NoWalletCheck(S, u) ==
    LET user == S.users[u]
    IN  IF ~user.exists THEN S
        ELSE IF ~user.joined_all_groups THEN S
        ELSE IF Lt(user.balance, S.set.min_withdraw_amount) THEN S
        ELSE [S EXCEPT !.st[u] = WITHDRAWING]

handle_withdraw(S, u) ==
    LET user == S.users[u]
    IN  IF ~user.exists THEN S
        ELSE IF ~user.joined_all_groups THEN S
        ELSE IF user.metacore_address = <<>> THEN S
        ELSE IF Lt(user.balance, S.set.min_withdraw_amount) THEN S
        ELSE [S EXCEPT !.st[u] = WITHDRAWING]

\* process_withdrawal_amount, lines 632-640: 'all' or float(text.replace(',', ''))
ParseAmount(text, balance_tokens) ==
    IF text = <<"a", "l", "l">> THEN [ok |-> TRUE, val |-> balance_tokens]
    ELSE IF DropCommas(text) = <<"n", "a", "n">> THEN [ok |-> TRUE, val |-> NaN]
    ELSE ParseNumber(DropCommas(text))

\* the check of line 643 without its upper bound
AmountAccepted_NoCeiling(amount, min_amount, balance_tokens) == ~Lt(amount, min_amount)

\* line 643, negated: the amount that passes
AmountAccepted(amount, min_amount, balance_tokens) ==
    ~(Lt(amount, min_amount) \/ Lt(balance_tokens, amount))

NewWithdrawal(u, amount, address) ==
    [user_id |-> u, amount |-> amount, to_address |-> address, status |-> "pending",
     tx_hash |-> "", processed_at |-> "null", admin_note |-> "", network |-> ""]

\* an except clause that takes the inserted row back out
DebitRaised_Undone(before, inserted) == before

\* the except clause of lines 689-691 after subtract_balance raised: it logs
\* and replies; the store is as the insert left it
DebitRaised(before, inserted) == inserted

\* process_withdrawal_amount; f is the remote write that raises (0: none,
\* 1: the insert, 2: subtract_balance)
process_withdrawal_amount_raising(S, u, msg, f) ==
    LET text == Lower(Strip(msg))
        user == S.users[u]
        amount == ParseAmount(text, user.balance)
        withdrawal_id == Len(S.wd) + 1
        inserted == [S EXCEPT !.wd = Append(@, NewWithdrawal(u, amount.val, user.metacore_address))]
    IN  IF ~user.exists THEN S
        ELSE IF ~amount.ok THEN S
        ELSE IF ~AmountAccepted(amount.val, S.set.min_withdraw_amount, user.balance) THEN S
        ELSE IF f = 1 THEN S
        ELSE IF f = 2 THEN DebitRaised(S, inserted)
        ELSE [RpcSubtractBalance(inserted, u, amount.val, "withdrawal", withdrawal_id)
                EXCEPT !.st[u] = MAIN]

process_withdrawal_amount(S, u, msg) == process_withdrawal_amount_raising(S, u, msg, 0)

\* handle_message with the Back button tested before the states
handle_message_BackFirst(S, u, text) ==
    LET state == StateOf(S.st, u)
    IN  IF text = BTN_BACK THEN [S EXCEPT !.st[u] = MAIN]
        ELSE IF state = SETTING_TELEGRAM THEN process_telegram_handle(S, u, text)
        ELSE IF state = SETTING_TWITTER THEN process_twitter_handle(S, u, text)
        ELSE IF state = SETTING_WALLET THEN process_wallet_address(S, u, text)
        ELSE IF state = WITHDRAWING THEN process_withdrawal_amount(S, u, text)
        ELSE IF text = BTN_SET_WALLET THEN handle_set_wallet(S, u)
        ELSE IF text = BTN_WITHDRAW THEN handle_withdraw(S, u)
        ELSE IF text = BTN_JOINED THEN verify_group_membership(S, u)
        ELSE S

\* handle_message: the awaiting-input states first, then the menu buttons
handle_message(S, u, text) ==
    LET state == StateOf(S.st, u)
    IN  IF state = SETTING_TELEGRAM THEN process_telegram_handle(S, u, text)
        ELSE IF state = SETTING_TWITTER THEN process_twitter_handle(S, u, text)
        ELSE IF state = SETTING_WALLET THEN process_wallet_address(S, u, text)
        ELSE IF state = WITHDRAWING THEN process_withdrawal_amount(S, u, text)
        ELSE IF text = BTN_SET_WALLET THEN handle_set_wallet(S, u)
        ELSE IF text = BTN_WITHDRAW THEN handle_withdraw(S, u)
        ELSE IF text = BTN_JOINED THEN verify_group_membership(S, u)
        ELSE IF text = BTN_BACK THEN [S EXCEPT !.st[u] = MAIN]
        ELSE S

\* the branch of handle_message a message takes, by the name of the function
\* it awaits; "back" is the inline branch of the Back button and "none" the
\* missing else of the chain
NO_HANDLER == "none"
Buttons == {BTN_REFERRAL, BTN_BALANCE, BTN_SET_WALLET, BTN_WITHDRAW, BTN_PROFILE, BTN_HELP,
            BTN_JOINED, BTN_BACK}
AwaitingInput == {SETTING_TELEGRAM, SETTING_TWITTER, SETTING_WALLET, WITHDRAWING}
HandlerOf(state, text) ==
    IF state = SETTING_TELEGRAM THEN "process_telegram_handle"
    ELSE IF state = SETTING_TWITTER THEN "process_twitter_handle"
    ELSE IF state = SETTING_WALLET THEN "process_wallet_address"
    ELSE IF state = WITHDRAWING THEN "process_withdrawal_amount"
    ELSE IF text = BTN_REFERRAL THEN "handle_referral_link"
    ELSE IF text = BTN_BALANCE THEN "handle_balance"
    ELSE IF text = BTN_SET_WALLET THEN "handle_set_wallet"
    ELSE IF text = BTN_WITHDRAW THEN "handle_withdraw"
    ELSE IF text = BTN_PROFILE THEN "handle_profile"
    ELSE IF text = BTN_HELP THEN "handle_help"
    ELSE IF text = BTN_JOINED THEN "verify_group_membership"
    ELSE IF text = BTN_BACK THEN "back"
    ELSE NO_HANDLER

(***************************************************************************)
(* Writes to the withdrawals table and the calls that follow them.  A      *)
(* handler's remote calls are a list; a call that raises cuts the list     *)
(* short and hands over to the handler's except clause.                    *)
(***************************************************************************)
KEEP == "keep"
OpStatus(id, status, tx_hash, touch, note) ==
    [op |-> "status", id |-> id, status |-> status, tx_hash |-> tx_hash, touch |-> touch,
     note |-> note, network |-> KEEP, u |-> NoId, amount |-> 0]
OpRefund(u, amount, id) ==
    [op |-> "refund", id |-> id, status |-> KEEP, tx_hash |-> KEEP, touch |-> FALSE,
     note |-> KEEP, network |-> KEEP, u |-> u, amount |-> amount]
OpLogPaid(u, amount, id) ==
    [op |-> "log", id |-> id, status |-> KEEP, tx_hash |-> KEEP, touch |-> FALSE,
     note |-> KEEP, network |-> KEEP, u |-> u, amount |-> amount]

\* an update whose write of 'processing' claims the row: .eq('status', 'approved') as well
UpdateWithdrawal_Claimed(wd, o) ==
    IF o.id \notin DOMAIN wd THEN wd
    ELSE IF o.status = "processing" /\ wd[o.id].status # "approved" THEN wd
    ELSE [wd EXCEPT ![o.id].status = o.status,
                    ![o.id].tx_hash = IF o.tx_hash = KEEP THEN @ ELSE o.tx_hash,
                    ![o.id].processed_at = IF o.touch THEN "fresh" ELSE @,
                    ![o.id].admin_note = IF o.note = KEEP THEN @ ELSE o.note,
                    ![o.id].network = IF o.network = KEEP THEN @ ELSE o.network]

\* supabase.table('withdrawals').update({...}).eq('id', id)
UpdateWithdrawal(wd, o) ==
    IF o.id \notin DOMAIN wd THEN wd
    ELSE [wd EXCEPT ![o.id].status = o.status,
                    ![o.id].tx_hash = IF o.tx_hash = KEEP THEN @ ELSE o.tx_hash,
                    ![o.id].processed_at = IF o.touch THEN "fresh" ELSE @,
                    ![o.id].admin_note = IF o.note = KEEP THEN @ ELSE o.note,
                    ![o.id].network = IF o.network = KEEP THEN @ ELSE o.network]

OpRaises(S, o, injected) == injected \/ (o.op = "refund" /\ RpcRaises(S, o.u))
ApplyOp(S, o) ==
    IF o.op = "status" THEN [S EXCEPT !.wd = UpdateWithdrawal(@, o)]
    ELSE IF o.op = "refund" THEN RpcAddBalance(S, o.u, o.amount, "refund", o.id)
    ELSE [S EXCEPT !.tx = LogTx(@, TxRow(o.u, "withdrawal_paid", 0 - o.amount, o.id))]

\* the calls of ops in order; call number f raises (0: none is made to raise)
RECURSIVE RunOps(_, _, _, _)
RunOps(S, ops, f, i) ==
    IF i > Len(ops) THEN [S |-> S, raised |-> FALSE]
    ELSE IF OpRaises(S, ops[i], f = i) THEN [S |-> S, raised |-> TRUE]
    ELSE RunOps(ApplyOp(S, ops[i]), ops, f, i + 1)

\* try: ops  except: handler (whose own exception is caught and logged)
TryExcept(S, ops, f, handler, hf) ==
    LET r == RunOps(S, ops, f, 1)
    IN  [S |-> IF r.raised THEN RunOps(r.S, handler, hf, 1).S ELSE r.S, raised |-> r.raised]

(***************************************************************************)
(* bot.py: the admin's inline buttons                                      *)
(***************************************************************************)
\* a gate that takes every sender for the admin
IsAdmin_Anyone(sender) == TRUE

IsAdmin(sender) == sender = ADMIN_ID

\* reject_withdrawal: read the row, write 'rejected', refund
reject_withdrawal(S, id) ==
    IF id \notin DOMAIN S.wd THEN S
    ELSE LET withdrawal == S.wd[id]
         IN  TryExcept(S, <<OpStatus(id, "rejected", KEEP, TRUE, "rejected by admin"),
                            OpRefund(withdrawal.user_id, withdrawal.amount, id)>>,
                       0, <<>>, 0).S

\* approve_withdrawal, lines 793-799: write 'approved', read the row back
approve_update(S, id) ==
    [S EXCEPT !.wd = UpdateWithdrawal(@, OpStatus(id, "approved", KEEP, TRUE, KEEP))]

\* process_payment: what it writes for each way it can end
PaymentOp(id, how) ==
    IF how = "simulation" THEN OpStatus(id, "paid", "testnet_simulation", FALSE, KEEP)
    ELSE IF how = "exception" THEN OpStatus(id, "paid", "testnet_fallback", FALSE, "fallback processing")
    ELSE OpStatus(id, "paid", "0xhash", FALSE, KEEP)
PaymentWrite(S, id, how) ==
    IF how \in {"simulation", "exception", "receipt_ok"}
    THEN [S EXCEPT !.wd = UpdateWithdrawal(@, PaymentOp(id, how))]
    ELSE S

(***************************************************************************)
(* process.py / payment_process.py: one record of a batch                  *)
(***************************************************************************)
FailedAndRefund(w, id, note) ==
    <<OpStatus(id, "failed", KEEP, FALSE, note), OpRefund(w.user_id, w.amount, id)>>
\* 'paid' written whatever send_tokens returned
PaidAndLog_NoHash(w, id, tx_hash) ==
    <<[OpStatus(id, "paid", "", TRUE, KEEP) EXCEPT !.network = NETWORK_NAME],
      OpLogPaid(w.user_id, w.amount, id)>>
\* 'paid' written without the insert into transactions that follows it
PaidAndLog_NoLog(w, id, tx_hash) ==
    <<[OpStatus(id, "paid", tx_hash, TRUE, KEEP) EXCEPT !.network = NETWORK_NAME]>>
PaidAndLog(w, id, tx_hash) ==
    <<[OpStatus(id, "paid", tx_hash, TRUE, KEEP) EXCEPT !.network = NETWORK_NAME],
      OpLogPaid(w.user_id, w.amount, id)>>
MarkProcessing(id) == <<OpStatus(id, "processing", KEEP, TRUE, KEEP)>>
ExceptClause(w, id) == FailedAndRefund(w, id, "processing error")

\* process.py validate_withdrawal_request; admin_balance is what check_contract_balance returned
validate_withdrawal_request(w, admin_balance) ==
    /\ is_valid_bsc_address(w.to_address)
    /\ ~(w.amount <= 0)
    /\ ~(admin_balance < w.amount)

\* .eq('status', 'approved').order('created_at')[.limit(5)]
RECURSIVE IdsWithStatus(_, _, _)
IdsWithStatus(wd, status, i) ==
    IF i > Len(wd) THEN <<>>
    ELSE (IF wd[i].status = status THEN <<i>> ELSE <<>>) \o IdsWithStatus(wd, status, i + 1)
Take(s, n) == SubSeq(s, 1, Min(n, Len(s)))
SelectApproved(wd, script) ==
    IF script = "process" THEN Take(IdsWithStatus(wd, "approved", 1), BATCH_LIMIT)
    ELSE IdsWithStatus(wd, "approved", 1)

\* the janitor's pick: rows read as 'processing' whose processed_at is older than the cutoff
RECURSIVE StaleOf(_, _)
StaleOf(wd, ids) ==
    IF ids = <<>> THEN <<>>
    ELSE (IF wd[Head(ids)].processed_at = "stale" THEN <<Head(ids)>> ELSE <<>>) \o StaleOf(wd, Tail(ids))
SelectStuck(wd) == StaleOf(wd, IdsWithStatus(wd, "processing", 1))

(***************************************************************************)
(* Initial state: empty tables, a fresh bot process, idle workers          *)
(***************************************************************************)
IdleWorker == [pc |-> "idle", script |-> "process", batch |-> <<>>, idx |-> 0,
               seen |-> {}, stuck |-> <<>>, to |-> <<>>]
IdleBot == [pc |-> "idle", id |-> NoId]

Init ==
    /\ users = [u \in Users |-> NoUser]
    /\ withdrawals = <<>>
    /\ referrals = EmptyBag
    /\ transactions = EmptyBag
    /\ user_states = [u \in Users |-> UNSET]
    /\ user_last_action = [u \in Users |-> RATE_LIMIT_SECONDS]
    /\ bot = IdleBot
    /\ workers = [k \in Workers |-> IdleWorker]
    /\ treasury = TREASURY0
    /\ delivered = [id \in WIds |-> 0]
    /\ inflight = {}
    /\ admin_ops = [callbacks |-> 0, commands |-> 0, settings |-> 0, refused |-> 0]
    /\ referrer_calls = EmptyBag
    /\ settings = DefaultSettings
    /\ tasks = [t \in Tasks |-> NoTask]

SetStore(S) ==
    /\ users' = S.users
    /\ withdrawals' = S.wd
    /\ referrals' = S.refs
    /\ transactions' = S.tx
    /\ user_states' = S.st
    /\ settings' = S.set

(***************************************************************************)
(* Front-end: /start and text messages.  d is the time that passes until   *)
(* the next update; the handlers run one at a time, and none runs while    *)
(* process_payment blocks the event loop.                                  *)
(***************************************************************************)
Start(u, arg, d) ==
    /\ bot.pc = "idle"
    /\ IF rate_limit_check(user_last_action, u)
       THEN /\ SetStore(start(Cur, u, arg))
            /\ user_last_action' = Elapse(Stamp(user_last_action, u), d)
       ELSE /\ SetStore(Cur)
            /\ user_last_action' = Elapse(user_last_action, d)
    /\ UNCHANGED <<bot, workers, treasury, delivered, inflight, admin_ops, referrer_calls, tasks>>

\* /start of a user without a row, while remote write f of create_user raises
StartRaising(u, arg, f) ==
    /\ bot.pc = "idle"
    /\ ~users[u].exists
    /\ rate_limit_check(user_last_action, u)
    /\ SetStore(start_raising(Cur, u, arg, f))
    /\ user_last_action' = Elapse(Stamp(user_last_action, u), RATE_LIMIT_SECONDS)
    /\ UNCHANGED <<bot, workers, treasury, delivered, inflight, admin_ops, referrer_calls, tasks>>

\* the button 'I've Joined All Groups' of a user outside the awaiting-input
\* states, while remote write f of verify_group_membership raises
VerifyRaising(u, f) ==
    /\ bot.pc = "idle"
    /\ StateOf(user_states, u) \notin AwaitingInput
    /\ rate_limit_check(user_last_action, u)
    /\ SetStore(verify_group_membership_raising(Cur, u, f))
    /\ user_last_action' = Elapse(Stamp(user_last_action, u), RATE_LIMIT_SECONDS)
    /\ UNCHANGED <<bot, workers, treasury, delivered, inflight, admin_ops, referrer_calls, tasks>>

\* handle_message from its first line to its first await
Handle(u, text, d) ==
    LET S == handle_message(Cur, u, text)
    IN  IF rate_limit_check(user_last_action, u)
        THEN /\ Len(S.wd) <= MaxWithdrawals
             /\ SetStore(S)
             /\ user_last_action' = Elapse(Stamp(user_last_action, u), d)
        ELSE /\ SetStore(Cur)
             /\ user_last_action' = Elapse(user_last_action, d)

Message(u, text, d) ==
    /\ bot.pc = "idle"
    /\ Handle(u, text, d)
    /\ UNCHANGED <<bot, workers, treasury, delivered, inflight, admin_ops, referrer_calls, tasks>>

\* a message with an amount, handled while remote write f of
\* process_withdrawal_amount raises
RequestRaising(u, text, f) ==
    /\ bot.pc = "idle"
    /\ StateOf(user_states, u) = WITHDRAWING
    /\ rate_limit_check(user_last_action, u)
    /\ LET S == process_withdrawal_amount_raising(Cur, u, text, f)
       IN  /\ Len(S.wd) <= MaxWithdrawals
           /\ SetStore(S)
    /\ user_last_action' = Elapse(Stamp(user_last_action, u), RATE_LIMIT_SECONDS)
    /\ UNCHANGED <<bot, workers, treasury, delivered, inflight, admin_ops, referrer_calls, tasks>>

(***************************************************************************)
(* Handlers dispatched as concurrent tasks of the one event loop           *)
(* (Application(concurrent_updates=True)): a task runs from one await to   *)
(* the next without another task running in between.  rate_limit_check is  *)
(* a plain function and no await precedes it or the handler's writes, so   *)
(* the check, the assignment and the writes are one step of the task.      *)
(***************************************************************************)
\* an update of user u is handed to a new task
Dispatch(t, u, text) ==
    /\ tasks[t].pc = "none"
    /\ tasks' = [tasks EXCEPT ![t] = [NoTask EXCEPT !.pc = "dispatched", !.u = u, !.text = text]]
    /\ UNCHANGED <<users, withdrawals, referrals, transactions, user_states, settings,
                   user_last_action, bot, workers, treasury, delivered, inflight, admin_ops,
                   referrer_calls>>

\* seconds since another task last let a message of the same user through
\* (RATE_LIMIT_SECONDS: that long or longer, or never)
Gap(t) ==
    IF \E o \in Tasks \ {t} : tasks[o].pc = "passed" /\ tasks[o].u = tasks[t].u
    THEN tasks[CHOOSE o \in Tasks \ {t} : tasks[o].pc = "passed" /\ tasks[o].u = tasks[t].u].since
    ELSE RATE_LIMIT_SECONDS

\* the task runs up to its first await
TaskRun(t) ==
    /\ tasks[t].pc = "dispatched"
    /\ Handle(tasks[t].u, tasks[t].text, 0)
    /\ tasks' = [tasks EXCEPT ![t].pc = IF rate_limit_check(user_last_action, tasks[t].u)
                                        THEN "passed" ELSE "rejected",
                              ![t].gap = Gap(t)]
    /\ UNCHANGED <<bot, workers, treasury, delivered, inflight, admin_ops, referrer_calls>>

\* the reply is sent and the handler returns
TaskDone(t) ==
    /\ tasks[t].pc \in {"passed", "rejected"}
    /\ tasks' = [tasks EXCEPT ![t] = NoTask]
    /\ UNCHANGED <<users, withdrawals, referrals, transactions, user_states, settings,
                   user_last_action, bot, workers, treasury, delivered, inflight, admin_ops,
                   referrer_calls>>

\* a second passes
Tick ==
    /\ user_last_action' = Elapse(user_last_action, 1)
    /\ tasks' = [t \in Tasks |->
                   IF tasks[t].pc = "passed"
                   THEN [tasks[t] EXCEPT !.since = Min(@ + 1, RATE_LIMIT_SECONDS)]
                   ELSE tasks[t]]
    /\ UNCHANGED <<users, withdrawals, referrals, transactions, user_states, settings,
                   bot, workers, treasury, delivered, inflight, admin_ops, referrer_calls>>

(***************************************************************************)
(* Front-end: handle_callback.  'approve_<id>' runs approve_withdrawal:    *)
(* the write of 'approved', then process_payment, which ends at once       *)
(* (simulation, or an exception before the transfer is sent) or sends the  *)
(* transfer and blocks until the receipt.  'reject_<id>' runs              *)
(* reject_withdrawal.                                                      *)
(***************************************************************************)
\* the handler returns at its identity check: nothing is written
Unauthorized ==
    /\ admin_ops' = [admin_ops EXCEPT !.refused = Min(@ + 1, MaxRefused)]
    /\ UNCHANGED <<users, withdrawals, referrals, transactions, user_states, settings,
                   user_last_action, bot, workers, treasury, delivered, inflight,
                   referrer_calls, tasks>>

ApproveCallback(sender, id) ==
    /\ bot.pc = "idle"
    /\ IF ~IsAdmin(sender) THEN Unauthorized
       ELSE IF id \notin DOMAIN withdrawals THEN UNCHANGED vars
       ELSE /\ admin_ops.callbacks < MaxCallbacks
            /\ admin_ops' = [admin_ops EXCEPT !.callbacks = @ + 1]
            /\ SetStore(approve_update(Cur, id))
            /\ bot' = [pc |-> "payment", id |-> id]
            /\ UNCHANGED <<user_last_action, workers, treasury, delivered, inflight,
                           referrer_calls, tasks>>

\* process_payment, lines 865-913
PaymentStart(path) ==
    /\ bot.pc = "payment"
    /\ IF path = "submit"
       THEN /\ SetStore(Cur)
            /\ bot' = [bot EXCEPT !.pc = "paying"]
            /\ inflight' = inflight \cup {<<"bot", bot.id>>}
       ELSE /\ SetStore(PaymentWrite(Cur, bot.id, path))
            /\ bot' = IdleBot
            /\ UNCHANGED inflight
    /\ UNCHANGED <<user_last_action, workers, treasury, delivered, admin_ops, referrer_calls, tasks>>

\* process_payment, lines 916-939: the receipt, a revert, or the wait timing out
PaymentReceipt(outcome) ==
    /\ bot.pc = "paying"
    /\ outcome = "receipt_ok" => treasury >= withdrawals[bot.id].amount
    /\ SetStore(PaymentWrite(Cur, bot.id, outcome))
    /\ bot' = IdleBot
    /\ inflight' = inflight \ {<<"bot", bot.id>>}
    /\ IF outcome = "receipt_ok"
       THEN /\ treasury' = treasury - withdrawals[bot.id].amount
            /\ delivered' = [delivered EXCEPT ![bot.id] = @ + 1]
       ELSE UNCHANGED <<treasury, delivered>>
    /\ UNCHANGED <<user_last_action, workers, admin_ops, referrer_calls, tasks>>

RejectCallback(sender, id) ==
    /\ bot.pc = "idle"
    /\ IF ~IsAdmin(sender) THEN Unauthorized
       ELSE IF id \notin DOMAIN withdrawals THEN UNCHANGED vars
       ELSE /\ admin_ops.callbacks < MaxCallbacks
            /\ admin_ops' = [admin_ops EXCEPT !.callbacks = @ + 1]
            /\ SetStore(reject_withdrawal(Cur, id))
            /\ UNCHANGED <<user_last_action, bot, workers, treasury, delivered, inflight,
                           referrer_calls, tasks>>

\* handle_add_balance: /addbalance <user_id> <amount>
handle_add_balance(S, user_id, amount) ==
    IF RpcRaises(S, user_id) THEN S
    ELSE RpcAddBalance(S, user_id, amount, "admin_credit", NoId)

AddBalanceCommand(sender, arg0, arg1) ==
    /\ bot.pc = "idle"
    /\ LET user_id == ParseNumber(arg0)
           amount == ParseNumber(arg1)
       IN  IF ~IsAdmin(sender) THEN Unauthorized
           ELSE IF ~user_id.ok \/ ~amount.ok THEN UNCHANGED vars
           ELSE /\ admin_ops.commands < MaxCommands
                /\ admin_ops' = [admin_ops EXCEPT !.commands = @ + 1]
                /\ SetStore(handle_add_balance(Cur, user_id.val, amount.val))
                /\ UNCHANGED <<user_last_action, bot, workers, treasury, delivered, inflight,
                               referrer_calls, tasks>>

\* handle_set_setting: /setsetting <key> <value>
valid_keys ==
    {"signup_bonus", "referral_bonus", "group_join_bonus", "min_withdraw_amount", "token_price_usd"}
handle_set_setting(S, key, value) ==
    IF key \notin valid_keys THEN S
    ELSE IF key \notin DOMAIN S.set THEN S
    ELSE [S EXCEPT !.set[key] = value]

SetSettingCommand(sender, key, arg1) ==
    /\ bot.pc = "idle"
    /\ LET value == ParseNumber(arg1)
       IN  IF ~IsAdmin(sender) THEN Unauthorized
           ELSE IF ~value.ok THEN UNCHANGED vars
           ELSE /\ admin_ops.settings < MaxSettings
                /\ admin_ops' = [admin_ops EXCEPT !.settings = @ + 1]
                /\ SetStore(handle_set_setting(Cur, key, value.val))
                /\ UNCHANGED <<user_last_action, bot, workers, treasury, delivered, inflight,
                               referrer_calls, tasks>>

(***************************************************************************)
(* Settlement workers.  A worker process runs one of the two scripts: the  *)
(* batch (select, then per record validate / mark, submit, receipt), then  *)
(* the janitor.  f is the remote call of the step that raises (0: none),   *)
(* hf the same for the except clause.  seen records the rows whose loop    *)
(* body was entered.                                                       *)
(***************************************************************************)
SetWorker(k, w) == workers' = [workers EXCEPT ![k] = w]

\* the loop moves to the next record, or the batch is over
Advance(w) ==
    IF w.idx + 1 > Len(w.batch)
    THEN [w EXCEPT !.pc = "cleanup", !.idx = w.idx + 1]
    ELSE [w EXCEPT !.pc = "validate", !.idx = w.idx + 1]

\* the try of line 236 around the loop instead of inside it
AfterException_Abort(w) == [w EXCEPT !.pc = "cleanup"]

\* an exception inside the loop body: the except clause ran, the loop goes on
AfterException(w) == Advance(w)

Continue(w, raised) == IF raised THEN AfterException(w) ELSE Advance(w)

WorkerStart(k, script) ==
    /\ workers[k].pc = "idle"
    /\ LET batch == SelectApproved(withdrawals, script)
       IN  SetWorker(k, [pc |-> IF batch = <<>> THEN "cleanup" ELSE "validate",
                         script |-> script, batch |-> batch,
                         idx |-> IF batch = <<>> THEN 0 ELSE 1,
                         seen |-> {}, stuck |-> <<>>, to |-> <<>>])
    /\ UNCHANGED <<users, withdrawals, referrals, transactions, user_states, settings, user_last_action,
                   bot, treasury, delivered, inflight, admin_ops, referrer_calls, tasks>>

\* process.py 237-270 / payment_process.py 289-306.  chain_error: the balance
\* query failed and check_contract_balance returned 0.
WorkerValidate(k, chain_error, f, hf) ==
    LET w == workers[k]
        id == w.batch[w.idx]
        rec == withdrawals[id]
        admin_balance == IF chain_error THEN 0 ELSE treasury
        valid == IF w.script = "process" THEN validate_withdrawal_request(rec, admin_balance)
                 ELSE ~(admin_balance < rec.amount)
        entered == [w EXCEPT !.seen = @ \cup {id}]
        refused == TryExcept(Cur, FailedAndRefund(rec, id, "validation failed"), f,
                             ExceptClause(rec, id), hf)
        marked == TryExcept(Cur, MarkProcessing(id), f, ExceptClause(rec, id), hf)
    IN  /\ w.pc = "validate"
        /\ IF ~valid /\ w.script = "process"
           THEN /\ SetStore(refused.S)
                /\ SetWorker(k, Continue(entered, refused.raised))
           ELSE IF ~valid
           THEN /\ SetStore(Cur)
                /\ SetWorker(k, Advance(entered))
           ELSE IF marked.raised
           THEN /\ SetStore(marked.S)
                /\ SetWorker(k, AfterException(entered))
           ELSE /\ SetStore(marked.S)
                /\ SetWorker(k, [entered EXCEPT !.pc = "submit"])
        /\ UNCHANGED <<user_last_action, bot, treasury, delivered, inflight, admin_ops,
                       referrer_calls, tasks>>

\* a transfer addressed to the wallet the user has now
Destination_CurrentWallet(rec) == users[rec.user_id].metacore_address

\* to_address = withdrawal['to_address']: the recipient of the transfer
Destination(rec) == rec.to_address

\* send_tokens up to send_raw_transaction: None without a transfer when the
\* wallet does not cover the amount or a node call raises (refused)
WorkerSubmit(k, refused, f, hf) ==
    LET w == workers[k]
        id == w.batch[w.idx]
        rec == withdrawals[id]
        r == TryExcept(Cur, FailedAndRefund(rec, id, "transaction failed"), f,
                       ExceptClause(rec, id), hf)
    IN  /\ w.pc = "submit"
        /\ IF refused \/ treasury < rec.amount
           THEN /\ SetStore(r.S)
                /\ SetWorker(k, Continue(w, r.raised))
                /\ UNCHANGED inflight
           ELSE /\ SetStore(Cur)
                /\ SetWorker(k, [w EXCEPT !.pc = "wait", !.to = Destination(rec)])
                /\ inflight' = inflight \cup {<<k, id>>}
        /\ UNCHANGED <<user_last_action, bot, treasury, delivered, admin_ops, referrer_calls, tasks>>

\* send_tokens from wait_for_transaction_receipt on, and what the loop body
\* writes for its result: confirmed = receipt.status 1, else a revert or a timeout
WorkerReceipt(k, confirmed, f, hf) ==
    LET w == workers[k]
        id == w.batch[w.idx]
        rec == withdrawals[id]
        ops == IF confirmed THEN PaidAndLog(rec, id, "0xhash")
               ELSE FailedAndRefund(rec, id, "transaction failed")
        r == TryExcept(Cur, ops, f, ExceptClause(rec, id), hf)
    IN  /\ w.pc = "wait"
        /\ confirmed => treasury >= rec.amount
        /\ SetStore(r.S)
        /\ SetWorker(k, [Continue(w, r.raised) EXCEPT !.to = <<>>])
        /\ inflight' = inflight \ {<<k, id>>}
        /\ IF confirmed
           THEN /\ treasury' = treasury - rec.amount
                /\ delivered' = [delivered EXCEPT ![id] = @ + 1]
           ELSE UNCHANGED <<treasury, delivered>>
        /\ UNCHANGED <<user_last_action, bot, admin_ops, referrer_calls, tasks>>

\* the process is interrupted inside the loop body (KeyboardInterrupt is not an
\* Exception: no except clause of the loop runs).  landed: a transfer already
\* sent is mined all the same.
Interrupt(k, landed) ==
    LET w == workers[k]
        id == w.batch[w.idx]
        rec == withdrawals[id]
    IN  /\ w.pc \in {"submit", "wait"}
        /\ landed => (w.pc = "wait" /\ treasury >= rec.amount)
        /\ SetWorker(k, IdleWorker)
        /\ inflight' = inflight \ {<<k, id>>}
        /\ IF landed
           THEN /\ treasury' = treasury - rec.amount
                /\ delivered' = [delivered EXCEPT ![id] = @ + 1]
           ELSE UNCHANGED <<treasury, delivered>>
        /\ UNCHANGED <<users, withdrawals, referrals, transactions, user_states, settings,
                       user_last_action, bot, admin_ops, referrer_calls, tasks>>

\* cleanup_stuck_withdrawals / cleanup_old_processing: the select
JanitorSelect(k) ==
    LET w == workers[k]
        stuck == SelectStuck(withdrawals)
    IN  /\ w.pc = "cleanup"
        /\ SetWorker(k, IF stuck = <<>> THEN IdleWorker
                        ELSE [w EXCEPT !.pc = "clean", !.stuck = stuck])
        /\ UNCHANGED <<users, withdrawals, referrals, transactions, user_states, settings,
                       user_last_action, bot, treasury, delivered, inflight, admin_ops,
                       referrer_calls, tasks>>

\* payment_process.py main: the janitor runs on every fifth cycle only
JanitorSkip(k) ==
    /\ workers[k].pc = "cleanup"
    /\ workers[k].script = "payment_process"
    /\ SetWorker(k, IdleWorker)
    /\ UNCHANGED <<users, withdrawals, referrals, transactions, user_states, settings,
                   user_last_action, bot, treasury, delivered, inflight, admin_ops,
                   referrer_calls, tasks>>

\* what the janitor writes for a row of its select
JanitorOps(rec, id) == FailedAndRefund(rec, id, "stuck in processing")

\* the janitor's loop body for one row of its select
JanitorClean(k, f) ==
    LET w == workers[k]
        id == Head(w.stuck)
        rec == withdrawals[id]
    IN  /\ w.pc = "clean"
        /\ SetStore(TryExcept(Cur, JanitorOps(rec, id), f, <<>>, 0).S)
        /\ SetWorker(k, IF Tail(w.stuck) = <<>> THEN IdleWorker
                        ELSE [w EXCEPT !.stuck = Tail(w.stuck)])
        /\ UNCHANGED <<user_last_action, bot, treasury, delivered, inflight, admin_ops,
                       referrer_calls, tasks>>

\* time passes: a record's processed_at falls behind the janitor's cutoff
Age(id) ==
    /\ id \in DOMAIN withdrawals
    /\ withdrawals[id].status = "processing"
    /\ withdrawals[id].processed_at = "fresh"
    /\ withdrawals' = [withdrawals EXCEPT ![id].processed_at = "stale"]
    /\ UNCHANGED <<users, referrals, transactions, user_states, settings, user_last_action, bot,
                   workers, treasury, delivered, inflight, admin_ops, referrer_calls, tasks>>

(***************************************************************************)
(* credit_referrer called on its own, for any pair, any number of times up *)
(* to the bound                                                            *)
(***************************************************************************)
CreditReferrerCall(inviter, referred) ==
    /\ bot.pc = "idle"
    /\ CopiesIn(<<inviter, referred>>, referrer_calls) < MaxCalls
    /\ referrer_calls' = referrer_calls (+) SetToBag({<<inviter, referred>>})
    /\ SetStore(credit_referrer(Cur, inviter, referred))
    /\ UNCHANGED <<user_last_action, bot, workers, treasury, delivered, inflight, admin_ops,
                   tasks>>

(***************************************************************************)
(* Specifications                                                          *)
(***************************************************************************)
Senders == {ADMIN_ID, 1}
StartArgs == {ARG_NONE, ArgRef(1)}
Texts == {BTN_JOINED, BTN_SET_WALLET, BTN_WITHDRAW, BTN_BACK, BTN_HELP,
          TXT_HANDLE, TXT_WALLET, TXT_ALL, TXT_4000, TXT_3000, TXT_9000}
TextsSettle == {BTN_WITHDRAW, TXT_4000, TXT_ALL}
AmountArgs == {<<"4", "0", "0", "0">>, TXT_NEG}
UserArgs == {<<"1">>, <<"2">>}
PaymentPaths == {"simulation", "exception", "submit"}
PaymentOutcomes == {"receipt_ok", "reverted", "exception"}
NoFaults == {0}
Faults == 0..2

FrontEnd(T, Delays) ==
    \/ \E u \in Users, arg \in StartArgs, d \in Delays : Start(u, arg, d)
    \/ \E u \in Users, text \in T, d \in Delays : Message(u, text, d)

Commands ==
    \E sender \in Senders, a0 \in UserArgs, a1 \in AmountArgs : AddBalanceCommand(sender, a0, a1)

\* /setsetting min_withdraw_amount 3000, /setsetting referral_percent 3000
SettingCommands ==
    \E sender \in Senders, key \in {"min_withdraw_amount", "referral_percent"} :
        SetSettingCommand(sender, key, TXT_3000)

Approvals ==
    \/ \E sender \in Senders, id \in WIds : ApproveCallback(sender, id)
    \/ \E path \in PaymentPaths : PaymentStart(path)
    \/ \E outcome \in PaymentOutcomes : PaymentReceipt(outcome)

Rejections == \E sender \in Senders, id \in WIds : RejectCallback(sender, id)

Callbacks == Approvals \/ Rejections

Settlement(W, F) ==
    \/ \E k \in W, script \in Scripts : WorkerStart(k, script)
    \/ \E k \in W, e \in {f > 0 : f \in F}, f \in F, hf \in F : WorkerValidate(k, e, f, hf)
    \/ \E k \in W, r \in BOOLEAN, f \in F, hf \in F : WorkerSubmit(k, r, f, hf)
    \/ \E k \in W, c \in BOOLEAN, f \in F, hf \in F : WorkerReceipt(k, c, f, hf)
    \/ \E k \in W, landed \in BOOLEAN : Interrupt(k, landed)
    \/ \E k \in W : JanitorSelect(k)
    \/ \E k \in W : JanitorSkip(k)
    \/ \E k \in W, f \in F : JanitorClean(k, f)
    \/ \E id \in WIds : Age(id)

\* the bot from its construction on: onboarding, wallet, withdrawal requests, /addbalance
Next == FrontEnd(Texts, {RATE_LIMIT_SECONDS}) \/ Commands
Spec == Init /\ [][Next]_vars

\* A state Spec reaches: both users through onboarding with a wallet set,
\* user 1 credited one referral and user 2 one /addbalance.
Onboarded(u, invited_by) ==
    [exists |-> TRUE, balance |-> SIGNUP_BONUS + GROUP_JOIN_BONUS + REFERRAL_BONUS,
     joined_all_groups |-> TRUE, has_received_group_bonus |-> TRUE,
     telegram_handle |-> Tail(TXT_HANDLE), twitter_handle |-> Tail(TXT_HANDLE),
     metacore_address |-> TXT_WALLET, invited_by |-> invited_by]
OnboardedTx ==
    SetToBag({TxRow(1, "signup", SIGNUP_BONUS, NoId), TxRow(2, "signup", SIGNUP_BONUS, NoId),
              TxRow(1, "group_join", GROUP_JOIN_BONUS, NoId), TxRow(2, "group_join", GROUP_JOIN_BONUS, NoId),
              TxRow(1, "referral", REFERRAL_BONUS, 2), TxRow(2, "admin_credit", REFERRAL_BONUS, NoId)})
InitSettle ==
    /\ users = [u \in Users |-> Onboarded(u, IF u = 2 THEN 1 ELSE NoId)]
    /\ withdrawals = <<>>
    /\ referrals = SetToBag({<<1, 2>>})
    /\ transactions = OnboardedTx
    /\ user_states = [u \in Users |-> MAIN]
    /\ user_last_action = [u \in Users |-> RATE_LIMIT_SECONDS]
    /\ bot = IdleBot
    /\ workers = [k \in Workers |-> IdleWorker]
    /\ treasury = TREASURY0
    /\ delivered = [id \in WIds |-> 0]
    /\ inflight = {}
    /\ admin_ops = [callbacks |-> 0, commands |-> 1, settings |-> 0, refused |-> 0]
    /\ referrer_calls = EmptyBag
    /\ settings = DefaultSettings
    /\ tasks = [t \in Tasks |-> NoTask]

Requests(U) == \E u \in U, text \in TextsSettle : Message(u, text, RATE_LIMIT_SECONDS)

\* requests, the admin's buttons and one settlement worker
NextSettle == Requests(Users) \/ Callbacks \/ Settlement({"w1"}, NoFaults)
SpecSettle == InitSettle /\ [][NextSettle]_vars

\* A state SpecSettle reaches: each user asked for 4000, the admin approved both
\* and both transfers of process_payment were reverted.
ApprovedRow(u) ==
    [NewWithdrawal(u, MIN_WITHDRAW_AMOUNT, TXT_WALLET) EXCEPT !.status = "approved",
                                                              !.processed_at = "fresh"]
InitApproved ==
    /\ users = [u \in Users |->
                  [Onboarded(u, IF u = 2 THEN 1 ELSE NoId) EXCEPT !.balance = @ - MIN_WITHDRAW_AMOUNT]]
    /\ withdrawals = <<ApprovedRow(1), ApprovedRow(2)>>
    /\ referrals = SetToBag({<<1, 2>>})
    /\ transactions = OnboardedTx (+) SetToBag({TxRow(1, "withdrawal", 0 - MIN_WITHDRAW_AMOUNT, 1),
                                                TxRow(2, "withdrawal", 0 - MIN_WITHDRAW_AMOUNT, 2)})
    /\ user_states = [u \in Users |-> MAIN]
    /\ user_last_action = [u \in Users |-> RATE_LIMIT_SECONDS]
    /\ bot = IdleBot
    /\ workers = [k \in Workers |-> IdleWorker]
    /\ treasury = TREASURY0
    /\ delivered = [id \in WIds |-> 0]
    /\ inflight = {}
    /\ admin_ops = [callbacks |-> 2, commands |-> 1, settings |-> 0, refused |-> 0]
    /\ referrer_calls = EmptyBag
    /\ settings = DefaultSettings
    /\ tasks = [t \in Tasks |-> NoTask]

\* one settlement worker on the two approved requests, with remote calls that raise
NextFault == Settlement({"w1"}, Faults)
SpecFault == InitApproved /\ [][NextFault]_vars

\* two worker processes that may overlap, on the two approved requests
NextTwo == Settlement(Workers, NoFaults)
SpecTwo == InitApproved /\ [][NextTwo]_vars

\* credit_referrer on its own, between /start updates
NextReferral ==
    \/ \E u \in Users, arg \in StartArgs : Start(u, arg, RATE_LIMIT_SECONDS)
    \/ \E inviter \in Users \cup {3}, referred \in Users : CreditReferrerCall(inviter, referred)
SpecReferral == Init /\ [][NextReferral]_vars

\* what users type when asked for a wallet address or an amount
WalletTexts ==
    {TXT_WALLET, <<" ">> \o TXT_WALLET \o <<" ">>, <<"0", "x">> \o Chars(40, "F"),
     <<"0", "x">> \o Chars(39, "a"), <<"0", "x">> \o Chars(41, "a"),
     <<"0", "X">> \o Chars(40, "a"), Chars(42, "a"), <<"0", "x">> \o Chars(39, "a") \o <<"g">>}
AmountTexts ==
    {TXT_ALL, <<"A", "L", "L">>, <<"a", "l", "l", " ">>, TXT_4000, TXT_3000, TXT_9000,
     TXT_NEG, TXT_SHORT, <<"N", "a", "N">>}
TextsInput == {BTN_SET_WALLET, BTN_WITHDRAW, BTN_BACK} \cup WalletTexts \cup AmountTexts
Delays == 0..RATE_LIMIT_SECONDS

\* two onboarded users typing wallet addresses and amounts
NextInput == FrontEnd(TextsInput, {RATE_LIMIT_SECONDS})
SpecInput == InitSettle /\ [][NextInput]_vars

\* two onboarded users sending updates 0, 1 or 2 seconds apart
NextRate == FrontEnd(TextsSettle, Delays)
SpecRate == InitSettle /\ [][NextRate]_vars

\* two onboarded users whose messages are handled by concurrent tasks; the
\* event loop runs every task that is ready
NextTasks ==
    \/ \E t \in Tasks, u \in Users, text \in TextsSettle : Dispatch(t, u, text)
    \/ \E t \in Tasks : TaskRun(t)
    \/ \E t \in Tasks : TaskDone(t)
    \/ Tick
SpecTasks ==
    InitSettle /\ [][NextTasks]_vars /\ \A t \in Tasks : WF_vars(TaskRun(t)) /\ WF_vars(TaskDone(t))

\* requests, and the admin's buttons and commands pressed and sent by the admin
\* and by user 1
NextAdmin == Requests(Users) \/ Callbacks \/ Commands \/ SettingCommands
SpecAdmin == InitSettle /\ [][NextAdmin]_vars

\* payment_process.py left running on the two approved requests: the loop of
\* main starts cycle after cycle, every step of a cycle is taken, the janitor's
\* turn comes again and again (every fifth cycle), and time passes.  The
\* process may be interrupted and started again.  No remote call raises and
\* the balance query answers with the treasury's balance.
NextLive ==
    \/ WorkerStart("w1", "payment_process")
    \/ WorkerValidate("w1", FALSE, 0, 0)
    \/ WorkerSubmit("w1", FALSE, 0, 0)
    \/ \E c \in BOOLEAN : WorkerReceipt("w1", c, 0, 0)
    \/ \E landed \in BOOLEAN : Interrupt("w1", landed)
    \/ JanitorSelect("w1")
    \/ JanitorSkip("w1")
    \/ JanitorClean("w1", 0)
    \/ \E id \in WIds : Age(id)
FairLive ==
    /\ WF_vars(WorkerStart("w1", "payment_process"))
    /\ WF_vars(WorkerValidate("w1", FALSE, 0, 0))
    /\ WF_vars(WorkerSubmit("w1", FALSE, 0, 0))
    /\ WF_vars(\E c \in BOOLEAN : WorkerReceipt("w1", c, 0, 0))
    /\ SF_vars(JanitorSelect("w1"))
    /\ WF_vars(JanitorClean("w1", 0))
    /\ \A id \in WIds : WF_vars(Age(id))
SpecLive == InitApproved /\ [][NextLive]_vars /\ FairLive

\* onboarding from the first /start on, with inserts of create_user that may raise
TextsOnboarding ==
    {TXT_HANDLE, TXT_SHORT, <<"a", "b", "c", "d", "e">>, <<"@", "a", "b", "c", "d">>,
     <<" ", "c", "a", "r", "o", "l", " ">>, <<"a", "l", "-", "i", "c", "e">>, <<"@">>,
     Chars(15, "Z"), Chars(16, "Z"), Chars(32, "a"), Chars(33, "a"), BTN_JOINED, BTN_BACK}
NextOnboarding ==
    \/ \E u \in Users, arg \in StartArgs : Start(u, arg, RATE_LIMIT_SECONDS)
    \/ \E u \in Users, arg \in StartArgs, f \in 1..2 : StartRaising(u, arg, f)
    \/ \E u \in Users, text \in TextsOnboarding : Message(u, text, RATE_LIMIT_SECONDS)
SpecOnboarding == Init /\ [][NextOnboarding]_vars

\* onboarding with remote writes of the group verification that may raise as well
NextGroups ==
    \/ NextOnboarding
    \/ \E u \in Users, f \in 1..2 : VerifyRaising(u, f)
SpecGroups == Init /\ [][NextGroups]_vars

\* A withdrawals table of up to MaxRows requests of user 1, each approved or
\* still pending, in front of one idle worker.
InitBatch ==
    /\ users = [u \in Users |-> Onboarded(u, IF u = 2 THEN 1 ELSE NoId)]
    /\ withdrawals \in UNION {[1..n -> {ApprovedRow(1), NewWithdrawal(1, MIN_WITHDRAW_AMOUNT, TXT_WALLET)}] :
                                 n \in 0..MaxRows}
    /\ referrals = SetToBag({<<1, 2>>})
    /\ transactions = OnboardedTx
    /\ user_states = [u \in Users |-> MAIN]
    /\ user_last_action = [u \in Users |-> RATE_LIMIT_SECONDS]
    /\ bot = IdleBot
    /\ workers = [k \in Workers |-> IdleWorker]
    /\ treasury = TREASURY0
    /\ delivered = [id \in 1..MaxRows |-> 0]
    /\ inflight = {}
    /\ admin_ops = [callbacks |-> 2, commands |-> 1, settings |-> 0, refused |-> 0]
    /\ referrer_calls = EmptyBag
    /\ settings = DefaultSettings
    /\ tasks = [t \in Tasks |-> NoTask]

\* one settlement worker on that table
NextBatch == Settlement({"w1"}, NoFaults)
SpecBatch == InitBatch /\ [][NextBatch]_vars

\* user 1 asking for a withdrawal and changing wallet, the admin's buttons and
\* one settlement worker
TXT_WALLET_2 == <<"0", "x">> \o Chars(40, "F")
TextsWallet == {BTN_WITHDRAW, TXT_4000, BTN_SET_WALLET, TXT_WALLET_2}
NextWallet ==
    \/ \E text \in TextsWallet : Message(1, text, RATE_LIMIT_SECONDS)
    \/ Callbacks
    \/ Settlement({"w1"}, NoFaults)
SpecWallet == InitSettle /\ [][NextWallet]_vars

\* requests whose insert or debit may raise, and the admin's buttons
NextDebit ==
    \/ Requests(Users)
    \/ \E u \in Users, text \in TextsSettle, f \in 1..2 : RequestRaising(u, text, f)
    \/ Callbacks
SpecDebit == InitSettle /\ [][NextDebit]_vars

(***************************************************************************)
(* Properties                                                              *)
(***************************************************************************)
Balance(u) == users[u].balance

\* the step appends rows to the withdrawals table
WithdrawalCreated == Len(withdrawals') > Len(withdrawals)

\* a created row is one pending row of a user who was asked for an amount, for
\* an amount within [minimum, balance], and that user's balance drops by it
CreatedOnlyIfInRange ==
    WithdrawalCreated =>
        LET id == Len(withdrawals) + 1
            row == withdrawals'[id]
            u == row.user_id
        IN  /\ Len(withdrawals') = id
            /\ SubSeq(withdrawals', 1, id - 1) = withdrawals
            /\ row.status = "pending"
            /\ user_states[u] = WITHDRAWING
            /\ MIN_WITHDRAW_AMOUNT <= row.amount
            /\ row.amount <= Balance(u)
            /\ users'[u].balance = Balance(u) - row.amount
            /\ \A v \in Users \ {u} : users'[v].balance = Balance(v)

\* an amount within [minimum, balance] sent while the bot awaits it creates the row
InRangeCreates ==
    \A u \in Users, text \in Texts :
        LET a == ParseAmount(Lower(Strip(text)), Balance(u))
        IN  ( /\ user_states[u] = WITHDRAWING
              /\ rate_limit_check(user_last_action, u)
              /\ a.ok
              /\ MIN_WITHDRAW_AMOUNT <= a.val
              /\ a.val <= Balance(u)
              /\ Message(u, text, RATE_LIMIT_SECONDS) )
            => /\ WithdrawalCreated
               /\ withdrawals'[Len(withdrawals')].user_id = u
               /\ withdrawals'[Len(withdrawals')].amount = a.val

\* C1: a withdrawal is created if and only if the amount a entered while the bot
\* awaits it satisfies minimum <= a <= balance; the creation lowers the user's
\* balance by exactly a and adds exactly one record, in status pending.
C1_WithdrawalCreation == [][CreatedOnlyIfInRange /\ InRangeCreates]_vars

\* user 1 asked for 4,000 of 5500 tokens: one pending row, 1500 left
C1_Witness ==
    /\ Len(withdrawals) = 1
    /\ withdrawals[1].status = "pending"
    /\ withdrawals[1].user_id = 1
    /\ withdrawals[1].amount = 4000
    /\ Balance(1) = 1500
    /\ CountTx(transactions, TxRow(1, "withdrawal", 0 - 4000, 1)) = 1

\* C2: the balance of every user is non-negative in every reachable state.
C2_BalanceNonNegative == \A u \in Users : Balance(u) >= 0

\* the refund rows written for a withdrawal, and those of its exact amount
RefundRows(id) ==
    LET rows == {row \in BagToSet(transactions) : row.type = "refund" /\ row.ref = id}
    IN  BagCardinality([row \in rows |-> transactions[row]])
ExactRefunds(id) ==
    CountTx(transactions, TxRow(withdrawals[id].user_id, "refund", withdrawals[id].amount, id))

\* C3: every withdrawal in status failed or rejected has exactly one refund, of
\* exactly its amount; no path refunds twice, also when a path runs twice.
C3_RefundExactlyOnce ==
    \A id \in DOMAIN withdrawals :
        withdrawals[id].status \in {"failed", "rejected"} =>
            RefundRows(id) = 1 /\ ExactRefunds(id) = 1

\* C4: every withdrawal in status paid has a non-empty tx_hash, whichever of
\* process_payment and the settlement worker marked it.
C4_PaidHasTxHash ==
    \A id \in DOMAIN withdrawals :
        withdrawals[id].status = "paid" => withdrawals[id].tx_hash # ""

\* one row paid by a worker and one paid by process_payment
C4_Witness ==
    /\ \E id \in DOMAIN withdrawals :
          withdrawals[id].status = "paid" /\ withdrawals[id].tx_hash = "0xhash"
    /\ \E id \in DOMAIN withdrawals :
          withdrawals[id].status = "paid" /\ withdrawals[id].tx_hash = "testnet_fallback"

Terminal == {"paid", "failed", "rejected"}

\* C5: a withdrawal that reached paid, failed or rejected keeps that status.
C5_TerminalStatusesFinal ==
    [][\A id \in DOMAIN withdrawals :
          withdrawals[id].status \in Terminal =>
              withdrawals'[id].status = withdrawals[id].status]_vars

Edges == {<<"pending", "approved">>, <<"approved", "processing">>, <<"processing", "paid">>,
          <<"processing", "failed">>, <<"pending", "rejected">>}

\* C6: a status changes only along pending -> approved -> processing ->
\* {paid, failed} and pending -> rejected.
C6_StatusEdges ==
    [][\A id \in DOMAIN withdrawals :
          withdrawals'[id].status # withdrawals[id].status =>
              <<withdrawals[id].status, withdrawals'[id].status>> \in Edges]_vars

Pairs == (Users \cup {3}) \X Users
ReferralRows(pair) == CopiesIn(pair, referrals)
ReferralCredits(pair) == CountTx(transactions, TxRow(pair[1], "referral", REFERRAL_BONUS, pair[2]))
Calls(pair) == CopiesIn(pair, referrer_calls)
RECURSIVE SumRows(_, _)
SumRows(inviter, U) ==
    IF U = {} THEN 0
    ELSE LET r == CHOOSE x \in U : TRUE
         IN  ReferralRows(<<inviter, r>>) + SumRows(inviter, U \ {r})

\* never two rows for a pair, one bonus per row, and nothing else on the balance
OneRowOneBonus ==
    /\ \A pair \in Pairs : ReferralRows(pair) <= 1 /\ ReferralCredits(pair) = ReferralRows(pair)
    /\ \A u \in Users :
          users[u].exists => Balance(u) = SIGNUP_BONUS + REFERRAL_BONUS * SumRows(u, Users)

\* a call for an inviter who has a row leaves one row and one bonus, first call or not
CallLeavesOne ==
    \A pair \in Pairs :
        (Calls(pair)' > Calls(pair) /\ pair[1] \in Users /\ users[pair[1]].exists) =>
            ReferralRows(pair)' = 1 /\ ReferralCredits(pair)' = 1

\* C7: credit_referrer is idempotent: called twice or more for one pair, between
\* any other operations, it leaves exactly one referrals row for the pair and
\* exactly one referral bonus on the inviter's balance.
C7_CreditReferrerIdempotent == []OneRowOneBonus /\ [][CallLeavesOne]_vars

\* credit_referrer ran three times for (1, 2): one row, one bonus
C7_Witness ==
    /\ Calls(<<1, 2>>) = 3
    /\ ReferralRows(<<1, 2>>) = 1
    /\ ReferralCredits(<<1, 2>>) = 1
    /\ Balance(1) = SIGNUP_BONUS + REFERRAL_BONUS

GroupRows(u) ==
    LET rows == {row \in BagToSet(transactions) : row.type = "group_join" /\ row.user_id = u}
    IN  BagCardinality([row \in rows |-> transactions[row]])

\* C8: the group-join bonus is credited at most once per user; once the flag
\* has_received_group_bonus is set, no step credits it again.
C8_GroupBonusOnce ==
    /\ [](\A u \in Users : GroupRows(u) <= 1)
    /\ [][\A u \in Users :
             users[u].has_received_group_bonus => GroupRows(u)' = GroupRows(u)]_vars

\* user 2 holds the flag and one group bonus, back on the menu where the
\* button is pressed again; the bonus is all that was added to the signup bonus
C8_Witness ==
    /\ users[2].has_received_group_bonus
    /\ GroupRows(2) = 1
    /\ user_states[2] = MAIN
    /\ Balance(2) = SIGNUP_BONUS + GROUP_JOIN_BONUS

\* C9: a failure on one record of a batch (validation, transfer, or an exception
\* of a remote call in the loop body) never keeps the later records of the batch
\* from being attempted: the loop body is entered for every record before the
\* current one, and for all of them when the batch is over.
C9_BatchIsolating ==
    \A k \in Workers :
        LET w == workers[k]
        IN  /\ w.pc \in {"validate", "submit", "wait"} =>
                  \A j \in 1..Len(w.batch) : j < w.idx => w.batch[j] \in w.seen
            /\ w.pc \in {"cleanup", "clean"} =>
                  w.seen = {w.batch[j] : j \in 1..Len(w.batch)}

\* a batch of two is over: the except clause failed record 1, record 2 was paid
C9_Witness ==
    /\ workers["w1"].pc = "cleanup"
    /\ workers["w1"].batch = <<1, 2>>
    /\ workers["w1"].seen = {1, 2}
    /\ withdrawals[1].status = "failed"
    /\ withdrawals[1].admin_note = "processing error"
    /\ withdrawals[2].status = "paid"

\* C10: a record the janitor found stale in processing is failed and refunded
\* exactly once, also when janitors run several times or overlap a worker run.
C10_JanitorRefundsOnce ==
    \A id \in DOMAIN withdrawals :
        withdrawals[id].admin_note = "stuck in processing" =>
            withdrawals[id].status = "failed" /\ RefundRows(id) = 1

\* C11: a user for whom the membership check passes for one required group and
\* fails for another is not verified: joined_all_groups and
\* has_received_group_bonus stay false and no group bonus is credited.
C11_PartialMembershipFails ==
    \A u \in Users :
        ~check_group_membership(u) =>
            /\ ~users[u].joined_all_groups
            /\ ~users[u].has_received_group_bonus
            /\ GroupRows(u) = 0

\* '0x' followed by exactly 40 hexadecimal characters
WellFormedAddress(a) ==
    /\ Len(a) = 42
    /\ a[1] = "0" /\ a[2] = "x"
    /\ \A i \in 3..42 : a[i] \in HexChars

Wallet(u) == users[u].metacore_address

\* what handle_message makes of the text for a user asked for a wallet address
WalletAsked(u) == StateOf(user_states, u) = SETTING_WALLET
WalletReply(u, text) == handle_message(Cur, u, text)

\* C12 as stated: in the awaiting-wallet state the raw input is accepted iff it
\* is '0x' followed by exactly 40 hexadecimal characters; accepted, it becomes
\* the stored wallet and the state becomes MAIN; otherwise the wallet and the
\* state are unchanged.
C12_RawInputAccepted ==
    \A u \in Users, text \in TextsInput :
        WalletAsked(u) =>
            IF WellFormedAddress(text)
            THEN /\ WalletReply(u, text).users[u].metacore_address = text
                 /\ WalletReply(u, text).st[u] = MAIN
            ELSE /\ WalletReply(u, text).users[u].metacore_address = Wallet(u)
                 /\ WalletReply(u, text).st[u] = SETTING_WALLET

\* C12, amended: the input is accepted iff, with the surrounding whitespace
\* stripped, it is '0x' followed by exactly 40 hexadecimal characters; the
\* stripped address becomes the stored wallet and the state becomes MAIN;
\* otherwise the wallet and the state are unchanged.
C12_StrippedInputAccepted ==
    \A u \in Users, text \in TextsInput :
        WalletAsked(u) =>
            IF WellFormedAddress(Strip(text))
            THEN /\ WalletReply(u, text).users[u].metacore_address = Strip(text)
                 /\ WalletReply(u, text).st[u] = MAIN
            ELSE /\ WalletReply(u, text).users[u].metacore_address = Wallet(u)
                 /\ WalletReply(u, text).st[u] = SETTING_WALLET

\* a wallet that only an accepted input can have stored
C12_Witness ==
    /\ Wallet(1) = <<"0", "x">> \o Chars(40, "F")
    /\ user_states[1] = MAIN
    /\ Wallet(2) = TXT_WALLET
    /\ user_states[2] = SETTING_WALLET

\* what handle_message makes of the text for a user asked for an amount
AmountAsked(u) == StateOf(user_states, u) = WITHDRAWING
AmountReply(u, text) == handle_message(Cur, u, text)

\* the word 'all' in any letter case
AnyCaseAll(text) ==
    /\ Len(text) = 3
    /\ text[1] \in {"a", "A"} /\ text[2] \in {"l", "L"} /\ text[3] \in {"l", "L"}

\* C13: in the awaiting-withdrawal-amount state the input 'all', in any letter
\* case, with a balance of at least min_withdraw_amount creates a request for
\* the entire balance, and the balance becomes 0.
C13_AllWithdrawsEntireBalance ==
    \A u \in Users, text \in AmountTexts :
        (/\ AmountAsked(u)
         /\ AnyCaseAll(text)
         /\ Balance(u) # NaN
         /\ Balance(u) >= settings.min_withdraw_amount) =>
            LET S == AmountReply(u, text)
            IN  /\ Len(S.wd) = Len(withdrawals) + 1
                /\ SubSeq(S.wd, 1, Len(withdrawals)) = withdrawals
                /\ S.wd[Len(S.wd)].user_id = u
                /\ S.wd[Len(S.wd)].amount = Balance(u)
                /\ S.wd[Len(S.wd)].status = "pending"
                /\ S.users[u].balance = 0

\* both users withdrew everything they had: no typed number equals the balance
C13_Witness ==
    /\ Len(withdrawals) = 2
    /\ \A id \in 1..2 :
          /\ withdrawals[id].amount = SIGNUP_BONUS + GROUP_JOIN_BONUS + REFERRAL_BONUS
          /\ Balance(withdrawals[id].user_id) = 0
    /\ withdrawals[1].user_id # withdrawals[2].user_id

\* the amount is one the claim lists as rejected: not a number, below the
\* minimum or above the balance
NotANumber(text) == ~ParseNumber(DropCommas(Lower(Strip(text)))).ok
Rejectable(u, text) ==
    /\ ~AnyCaseAll(Strip(text))
    /\ \/ NotANumber(text)
       \/ ParseNumber(DropCommas(Lower(Strip(text)))).val < settings.min_withdraw_amount
       \/ ParseNumber(DropCommas(Lower(Strip(text)))).val > Balance(u)

\* C14: an amount below min_withdraw_amount, above the balance or not a number
\* creates no withdrawal record, leaves the balance unchanged and leaves the
\* user in the awaiting-withdrawal-amount state.
C14_RejectedAmountChangesNothing ==
    \A u \in Users, text \in AmountTexts :
        (AmountAsked(u) /\ Balance(u) # NaN /\ Rejectable(u, text)) =>
            /\ AmountReply(u, text).wd = withdrawals
            /\ AmountReply(u, text).users[u].balance = Balance(u)
            /\ AmountReply(u, text).st[u] = WITHDRAWING

\* the update of user u arrives less than RATE_LIMIT_SECONDS seconds after the
\* user's last accepted action
TooSoon(u) == user_last_action[u] < RATE_LIMIT_SECONDS

\* nothing the handlers write has changed, and the user's last accepted action
\* is the same moment, d seconds further back
RejectedEffect(u, d) ==
    /\ UNCHANGED <<users, withdrawals, referrals, transactions, user_states, settings>>
    /\ user_last_action'[u] = Min(user_last_action[u] + d, RATE_LIMIT_SECONDS)

\* the handler ran on the store and the update is the user's last accepted action
AcceptedEffect(u, S, d) ==
    /\ users' = S.users /\ withdrawals' = S.wd /\ user_states' = S.st
    /\ referrals' = S.refs /\ transactions' = S.tx
    /\ user_last_action'[u] = Min(d, RATE_LIMIT_SECONDS)

\* C15: a message or /start arriving less than RATE_LIMIT_SECONDS seconds after
\* the user's last accepted action is rejected and changes nothing (state,
\* records, last-action timestamp); one arriving RATE_LIMIT_SECONDS or more
\* after it is accepted.
C15_RateLimit ==
    [][/\ \A u \in Users, text \in TextsSettle, d \in Delays :
            Message(u, text, d) =>
                IF TooSoon(u) THEN RejectedEffect(u, d)
                ELSE AcceptedEffect(u, handle_message(Cur, u, text), d)
       /\ \A u \in Users, arg \in StartArgs, d \in Delays :
            Start(u, arg, d) =>
                IF TooSoon(u) THEN RejectedEffect(u, d)
                ELSE AcceptedEffect(u, start(Cur, u, arg), d)]_vars

\* user 1 was let through to the amount prompt one second ago, so the next
\* update of user 1 is too soon while one of user 2 is not
C15_Witness ==
    /\ user_last_action = <<1, RATE_LIMIT_SECONDS>>
    /\ user_states[1] = WITHDRAWING
    /\ Len(withdrawals) = 1

\* C16: at any moment at most one on-chain transfer is in flight (submitted and
\* not yet confirmed or failed) in the whole system.
C16_OneTransferInFlight == Cardinality(inflight) <= 1

\* the record worker k is working on
RecordOf(k) == workers[k].batch[workers[k].idx]

\* C17: when two settlement-worker invocations overlap, both can select the
\* same 'approved' record and each mark it 'processing' and submit a transfer
\* for it: the write of 'processing' is an unconditional update, made whatever
\* the other invocation has written since the selection, and the last status
\* write wins.
C17_UnconditionalStatusWrites ==
    [][\A k \in Workers :
          /\ (WorkerValidate(k, FALSE, 0, 0) /\ workers'[k].pc = "submit") =>
                withdrawals'[RecordOf(k)].status = "processing"
          /\ \A confirmed \in BOOLEAN :
                WorkerReceipt(k, confirmed, 0, 0) =>
                    withdrawals'[RecordOf(k)].status = IF confirmed THEN "paid" ELSE "failed"]_vars

\* both invocations selected request 1, marked it processing and have a
\* transfer for it in flight
C17_Witness ==
    /\ {<<"w1", 1>>, <<"w2", 1>>} \subseteq inflight
    /\ withdrawals[1].status = "processing"
    /\ \A k \in Workers : workers[k].pc = "wait" /\ workers[k].batch = <<1, 2>>

\* two tasks handling messages of one user have both passed the rate limiter,
\* one less than RATE_LIMIT_SECONDS after the other
BothPassed ==
    \E t1, t2 \in Tasks :
        /\ t1 # t2
        /\ tasks[t1].pc = "passed" /\ tasks[t2].pc = "passed"
        /\ tasks[t1].u = tasks[t2].u
        /\ tasks[t2].gap < RATE_LIMIT_SECONDS

\* two messages of one user are in the hands of two tasks, neither yet run
DispatchedTogether ==
    /\ \A t \in Tasks : tasks[t].pc = "dispatched"
    /\ tasks["t1"].u = tasks["t2"].u

\* C18 as stated: the check-then-set of rate_limit_check is not atomic with
\* respect to concurrently dispatched handlers, so two messages of one user
\* handled concurrently within the rate-limit interval come to both pass.
C18_BothPassEventually == DispatchedTogether ~> BothPassed

\* C18, amended: the check-then-set of rate_limit_check is atomic with respect
\* to concurrently dispatched handlers: of two messages of one user handled
\* concurrently within the rate-limit interval, never both pass.
C18_NeverBothPass ==
    /\ ~BothPassed
    /\ \A t \in Tasks : tasks[t].pc = "passed" => tasks[t].gap >= RATE_LIMIT_SECONDS

\* two messages of user 1 were dispatched together; one passed, the other was
\* handled one second later and rejected
C18_Witness ==
    /\ tasks["t1"].u = 1 /\ tasks["t2"].u = 1
    /\ tasks["t1"].pc = "passed" /\ tasks["t1"].since = 1
    /\ tasks["t2"].pc = "rejected" /\ tasks["t2"].gap = 1

\* the step is a privileged operation issued by a sender other than the admin
ByAnother(sender) ==
    \/ \E id \in WIds : ApproveCallback(sender, id) \/ RejectCallback(sender, id)
    \/ \E a0 \in UserArgs, a1 \in AmountArgs : AddBalanceCommand(sender, a0, a1)
    \/ \E key \in valid_keys : SetSettingCommand(sender, key, TXT_3000)

\* C19: an approve or reject callback or an admin command issued by a user id
\* other than the hardcoded admin id changes no withdrawal status, no balance
\* and no setting.
C19_OnlyAdminChanges ==
    [][\A sender \in Senders \ {ADMIN_ID} :
          ByAnother(sender) =>
              /\ withdrawals' = withdrawals
              /\ \A u \in Users : Balance(u)' = Balance(u)
              /\ settings' = settings]_vars

\* user 1 pressed a button or sent a command of the admin while a request was
\* pending, and the request is pending still
C19_Witness ==
    /\ admin_ops.refused > 0
    /\ admin_ops.callbacks = 0
    /\ Len(withdrawals) > 0
    /\ \A id \in DOMAIN withdrawals : withdrawals[id].status = "pending"
    /\ settings = DefaultSettings

\* C20: under fair scheduling of the worker and the janitor, every withdrawal
\* that is 'approved' or 'processing' eventually reaches 'paid' or 'failed',
\* also after a crash between the write of 'processing' and the outcome, and
\* also when the treasury balance does not cover the record.
C20_EventuallyTerminal ==
    \A id \in {1, 2} :
        (withdrawals[id].status \in {"approved", "processing"})
            ~> (withdrawals[id].status \in {"paid", "failed"})

\* the record worker k is about to validate fails the pre-transfer validation:
\* malformed destination, non-positive amount, or a treasury below the amount
ValidationFails(k) ==
    LET rec == withdrawals[RecordOf(k)]
    IN  \/ ~WellFormedAddress(rec.to_address)
        \/ rec.amount <= 0
        \/ treasury < rec.amount

\* C21: when the worker's pre-transfer validation of an approved record fails,
\* the record is marked 'failed' with a note, the user is refunded the amount,
\* no transfer is attempted for the record and the worker goes on to the next
\* record.
C21_ValidationFailureRefunds ==
    [][\A k \in Workers :
          (/\ workers[k].pc = "validate"
           /\ ValidationFails(k)
           /\ WorkerValidate(k, FALSE, 0, 0)) =>
              LET id == RecordOf(k)
                  rec == withdrawals[id]
              IN  /\ withdrawals'[id].status = "failed"
                  /\ withdrawals'[id].admin_note # ""
                  /\ users'[rec.user_id].balance = Balance(rec.user_id) + rec.amount
                  /\ inflight' = inflight
                  /\ workers'[k].pc \in {"validate", "cleanup"}
                  /\ workers'[k].idx = workers[k].idx + 1]_vars

\* after the step, record id is 'failed' and its owner has the amount back
FailedAndCredited(id) ==
    /\ withdrawals'[id].status = "failed"
    /\ users'[withdrawals[id].user_id].balance =
          Balance(withdrawals[id].user_id) + withdrawals[id].amount

\* C22: a transfer attempt that ends in a failed receipt, a confirmation
\* timeout or an exception leaves the record 'failed' (not 'paid', 'approved'
\* or 'processing') and credits the owner the full amount back.
C22_FailedTransferRefunds ==
    [][/\ \A outcome \in {"reverted", "exception"} :
            (bot.pc = "paying" /\ PaymentReceipt(outcome)) => FailedAndCredited(bot.id)
       /\ (bot.pc = "payment" /\ PaymentStart("exception")) => FailedAndCredited(bot.id)
       /\ \A k \in Workers :
            (workers[k].pc = "wait" /\ WorkerReceipt(k, FALSE, 0, 0)) =>
                FailedAndCredited(RecordOf(k))]_vars

\* C23: a record is marked 'processing' before the transfer primitive is
\* invoked for it: no transfer is submitted for a record whose stored status
\* is not 'processing' at that moment.
C23_ProcessingBeforeTransfer ==
    [][\A o \in {"bot"} \cup Workers, id \in WIds :
          (<<o, id>> \in inflight' /\ <<o, id>> \notin inflight) =>
              withdrawals[id].status = "processing"]_vars

\* the audit row of a paid withdrawal
PaidRow(u, amount, id) == TxRow(u, "withdrawal_paid", 0 - amount, id)

\* C24: on a confirmed transfer the worker marks the record 'paid', stores the
\* transaction identifier and the network label on it and appends exactly one
\* audit row of type 'withdrawal_paid', for the negative of the amount, that
\* references the withdrawal.
C24_ConfirmedTransferIsPaidAndLogged ==
    [][\A k \in Workers :
          (workers[k].pc = "wait" /\ WorkerReceipt(k, TRUE, 0, 0)) =>
              LET id == RecordOf(k)
                  rec == withdrawals[id]
                  row == PaidRow(rec.user_id, rec.amount, id)
              IN  /\ withdrawals'[id].status = "paid"
                  /\ withdrawals'[id].tx_hash = "0xhash"
                  /\ withdrawals'[id].network = NETWORK_NAME
                  /\ transactions' = transactions (+) SetToBag({row})]_vars

\* request 1 was paid by a worker: hash, label and one audit row
C24_Witness ==
    /\ withdrawals[1].status = "paid"
    /\ withdrawals[1].tx_hash = "0xhash"
    /\ withdrawals[1].network = NETWORK_NAME
    /\ delivered[1] = 1
    /\ CopiesIn(PaidRow(1, withdrawals[1].amount, 1), transactions) = 1

\* C25: when the insert of the withdrawal record succeeds and the debit call
\* fails, nothing compensates: the 'pending' record is in the store, the
\* balance is not reduced (and no audit row is written), and the record can
\* still be approved and paid.
C25_FailedDebitLeavesRecord ==
    \A u \in Users, text \in TextsSettle :
        (/\ AmountAsked(u)
         /\ Len(handle_message(Cur, u, text).wd) > Len(withdrawals)) =>
            LET S == process_withdrawal_amount_raising(Cur, u, text, 2)
            IN  /\ Len(S.wd) = Len(withdrawals) + 1
                /\ SubSeq(S.wd, 1, Len(withdrawals)) = withdrawals
                /\ S.wd[Len(S.wd)].user_id = u
                /\ S.wd[Len(S.wd)].status = "pending"
                /\ S.users = users
                /\ S.tx = transactions
                /\ S.st = user_states

\* a request for the whole balance of user 1 was approved and paid while
\* user 1 still holds the whole balance
C25_Witness ==
    /\ Len(withdrawals) >= 1
    /\ withdrawals[1].user_id = 1
    /\ withdrawals[1].amount = SIGNUP_BONUS + GROUP_JOIN_BONUS + REFERRAL_BONUS
    /\ withdrawals[1].status = "paid"
    /\ delivered[1] = 1
    /\ Balance(1) = withdrawals[1].amount

\* C26: the worker's select returns only records in status 'approved',
\* oldest first and none skipped, the loop takes them in that order, and one
\* batch holds at most BATCH_LIMIT records.
C26_BoundedOldestFirstBatch ==
    [][\A k \in Workers :
          LET w == workers[k]
              batch == workers'[k].batch
          IN  /\ (w.pc = "idle" /\ workers'[k].pc # "idle") =>
                    /\ \A i \in 1..Len(batch) : withdrawals[batch[i]].status = "approved"
                    /\ \A i \in 1..Len(batch), j \in 1..Len(batch) : i < j => batch[i] < batch[j]
                    /\ \A i \in 1..Len(batch), id \in 1..Len(withdrawals) :
                          (withdrawals[id].status = "approved" /\ id < batch[i]) =>
                              \E j \in 1..i : batch[j] = id
                    /\ Len(batch) <= BATCH_LIMIT
              /\ (w.pc # "idle" /\ workers'[k].idx # w.idx /\ workers'[k].pc # "idle") =>
                    /\ workers'[k].idx = w.idx + 1
                    /\ batch = w.batch]_vars

\* C27: every text message that passes the rate limit is dispatched to exactly
\* one handler: the input processor of the user's awaiting-input state
\* whatever the text, otherwise the handler of the menu button the text
\* equals; no message is dispatched to no handler.
C27_ExactlyOneHandler ==
    \A u \in Users, text \in TextsInput :
        rate_limit_check(user_last_action, u) =>
            LET state == StateOf(user_states, u)
                h == HandlerOf(state, text)
            IN  /\ h # NO_HANDLER
                /\ state \in AwaitingInput => \A other \in TextsInput : HandlerOf(state, other) = h
                /\ state \notin AwaitingInput => text \in Buttons

\* C28: a /start of a user without a stored profile either creates the
\* profile, with the configured signup bonus as its balance, and puts the user
\* in the state awaiting the first handle, or, when the creation fails, leaves
\* no profile and the conversational state as it was.
C28_FirstContactCreatesOrNothing ==
    \A u \in Users, arg \in StartArgs, f \in 0..2 :
        ~users[u].exists =>
            LET S == start_raising(Cur, u, arg, f)
            IN  \/ /\ S.users[u].exists
                   /\ S.users[u].balance = settings.signup_bonus
                   /\ S.st[u] = SETTING_TELEGRAM
                \/ /\ ~S.users[u].exists
                   /\ S.st = user_states

\* a handle of lo to hi word characters behind an optional '@'
Bare(text) == IF text # <<>> /\ Head(text) = "@" THEN Tail(text) ELSE text
WellFormedHandle(text, lo, hi) ==
    /\ Len(Bare(text)) >= lo
    /\ Len(Bare(text)) <= hi
    /\ \A i \in DOMAIN Bare(text) : Bare(text)[i] \in WordChars

\* what handle_message makes of the text for a user asked for the first handle
HandleAsked(u) == StateOf(user_states, u) = SETTING_TELEGRAM
HandleReply(u, text) == handle_message(Cur, u, text)

\* C29 as stated: in the awaiting-first-handle state an input that is 5 to 32
\* word characters behind an optional '@' is stored as the handle and the state
\* becomes awaiting-second-handle; any other input leaves the stored handle and
\* the state unchanged.
C29_RawHandleAccepted ==
    \A u \in Users, text \in TextsOnboarding :
        HandleAsked(u) =>
            IF WellFormedHandle(text, 5, 32)
            THEN /\ HandleReply(u, text).users[u].telegram_handle = Bare(text)
                 /\ HandleReply(u, text).st[u] = SETTING_TWITTER
            ELSE /\ HandleReply(u, text).users[u].telegram_handle = users[u].telegram_handle
                 /\ HandleReply(u, text).st[u] = SETTING_TELEGRAM

\* C29, amended: the input is judged with its surrounding whitespace stripped;
\* a stripped input of 5 to 32 word characters behind an optional '@' is stored
\* without the '@' and the state becomes awaiting-second-handle; any other
\* input leaves the stored handle and the state unchanged.
C29_StrippedHandleAccepted ==
    \A u \in Users, text \in TextsOnboarding :
        HandleAsked(u) =>
            IF WellFormedHandle(Strip(text), 5, 32)
            THEN /\ HandleReply(u, text).users[u].telegram_handle = Bare(Strip(text))
                 /\ HandleReply(u, text).st[u] = SETTING_TWITTER
            ELSE /\ HandleReply(u, text).users[u].telegram_handle = users[u].telegram_handle
                 /\ HandleReply(u, text).st[u] = SETTING_TELEGRAM

\* user 1 has had '@alice_1' accepted while user 2 is still being asked
C29_Witness ==
    /\ users[1].telegram_handle = Tail(TXT_HANDLE)
    /\ user_states[1] = SETTING_TWITTER
    /\ users[2].exists
    /\ user_states[2] = SETTING_TELEGRAM

\* what handle_message makes of the text for a user asked for the second handle
SecondHandleAsked(u) == StateOf(user_states, u) = SETTING_TWITTER
SecondHandleReply(u, text) == handle_message(Cur, u, text)

\* the step is a group verification of user u that passed: it set both flags
VerificationPassed(u) ==
    /\ users'[u].joined_all_groups
    /\ users'[u].has_received_group_bonus

\* C30: in the awaiting-second-handle state an input of 1 to 15 word characters
\* is stored as the second handle and the state becomes awaiting-groups; and a
\* user in the awaiting-groups state gets to MAIN only by a step that is a
\* passing group verification.
C30_GroupsGateMain ==
    [][\A u \in Users :
          /\ \A text \in TextsOnboarding :
                (SecondHandleAsked(u) /\ WellFormedHandle(text, 1, 15) /\ Bare(text) = text) =>
                    /\ SecondHandleReply(u, text).users[u].twitter_handle = text
                    /\ SecondHandleReply(u, text).st[u] = JOINING_GROUPS
          /\ (user_states[u] = JOINING_GROUPS /\ user_states'[u] = MAIN) =>
                VerificationPassed(u)]_vars

\* C31: for a user asked to join the groups, the membership check counts the user as a member of a group only when
\* the reported role is 'member', 'creator' or 'administrator' ('left',
\* 'kicked', any other role and a failed query are not-a-member), and it passes
\* only if every required group passes.
C31_MemberRolesOnly ==
    \A u \in Users, answer \in Answers :
        user_states[u] = JOINING_GROUPS =>
            (check_group_membership_on(answer) <=>
                \A i \in DOMAIN REQUIRED_GROUPS : answer[i] \in {"member", "creator", "administrator"})

\* C32: a withdrawal is created with the wallet address its user has at that
\* moment as to_address; no step changes the to_address of an existing
\* withdrawal, a change of the user's wallet included; and a worker's transfer
\* goes to the to_address of the record it is settling.
C32_DestinationFixedAtCreation ==
    [][/\ \A id \in 1..Len(withdrawals') :
            IF id <= Len(withdrawals)
            THEN withdrawals'[id].to_address = withdrawals[id].to_address
            ELSE withdrawals'[id].to_address = users[withdrawals'[id].user_id].metacore_address
       /\ \A k \in Workers :
            workers'[k].pc = "wait" =>
                workers'[k].to = withdrawals'[workers'[k].batch[workers'[k].idx]].to_address]_vars

\* a worker's transfer for a request of user 1 is under way to the address of
\* the record, after user 1 has stored another wallet
C32_Witness ==
    /\ workers["w1"].pc = "wait"
    /\ withdrawals[workers["w1"].batch[workers["w1"].idx]].user_id = 1
    /\ workers["w1"].to = TXT_WALLET
    /\ users[1].metacore_address = TXT_WALLET_2

\* the amounts of user u's withdrawals that are pending, approved, processing or paid
RECURSIVE HeldFrom(_, _, _)
HeldFrom(wd, u, i) ==
    IF i > Len(wd) THEN 0
    ELSE (IF wd[i].user_id = u /\ wd[i].status \in {"pending", "approved", "processing", "paid"}
          THEN wd[i].amount ELSE 0) + HeldFrom(wd, u, i + 1)
Held(u) == HeldFrom(withdrawals, u, 1)

\* the credits granted to user u: audit rows of signup, referral, group-join
\* and admin credits
RECURSIVE SumAmounts(_, _)
SumAmounts(rows, tx) ==
    IF rows = {} THEN 0
    ELSE LET r == CHOOSE x \in rows : TRUE
         IN  r.amount * CopiesIn(r, tx) + SumAmounts(rows \ {r}, tx)
Granted(u) ==
    SumAmounts({r \in BagToSet(transactions) :
                r.user_id = u /\ r.type \in {"signup", "referral", "group_join", "admin_credit"}},
            transactions)

\* C33: ledger conservation: for every user, the balance plus the amounts of
\* the user's withdrawals in status pending, approved, processing or paid
\* equals the sum of the credits granted to the user.
C33_LedgerConservation ==
    \A u \in Users : users[u].exists => users[u].balance + Held(u) = Granted(u)

\* C34: no withdrawal is both settled on chain and refunded: a withdrawal with
\* a confirmed transfer has no refund credit, whatever failed after the
\* transfer.
C34_SettledNeverRefunded ==
    \A id \in DOMAIN withdrawals : delivered[id] >= 1 => RefundRows(id) = 0

\* C35: a withdrawal approved through the admin's button is settled at most
\* once across the two processes: while process_payment is running for it no
\* settlement worker has a transfer for the same record under way, and no
\* record has two confirmed transfers.
C35_ApprovedSettledOnce ==
    /\ \A k \in Workers :
          bot.pc \in {"payment", "paying"} => <<k, bot.id>> \notin inflight
    /\ \A id \in DOMAIN withdrawals : delivered[id] <= 1

\* user u has passed the group step and has a wallet address stored
Eligible(u) == users[u].joined_all_groups /\ users[u].metacore_address # <<>>

\* C36: a withdrawal record is created only for a user who at that moment has
\* joined_all_groups true and a wallet address set: the record is created in
\* the awaiting-amount state, that state is entered only by a user with both,
\* and no step takes either away.
C36_WithdrawalNeedsGroupsAndWallet ==
    [][/\ \A id \in 1..Len(withdrawals') :
            id > Len(withdrawals) =>
                /\ user_states[withdrawals'[id].user_id] = WITHDRAWING
                /\ Eligible(withdrawals'[id].user_id)
       /\ \A u \in Users :
            /\ (user_states'[u] = WITHDRAWING /\ user_states[u] # WITHDRAWING) => Eligible(u)
            /\ Eligible(u) =>
                  users'[u].joined_all_groups /\ users'[u].metacore_address # <<>>]_vars

\* a request of user 2 is on record, made from the awaiting-amount state
C36_Witness ==
    /\ Len(withdrawals) >= 1
    /\ withdrawals[1].user_id = 2
    /\ withdrawals[1].to_address = TXT_WALLET
    /\ users[2].joined_all_groups
    /\ user_states[2] = MAIN

\* the referral credits in the audit log that user u's arrival triggered
ReferralTx(u) ==
    LET rows == {row \in BagToSet(transactions) : row.type = "referral" /\ row.ref = u}
    IN  BagCardinality([row \in rows |-> transactions[row]])

\* C37: a referral bonus is credited only by the step in which /start creates
\* the profile of the invited user, for an inviter who is not that user; a
\* /start of a user who has a profile credits nobody, and no user triggers more
\* than one referral credit.
C37_ReferralOnlyAtCreation ==
    [][\A u \in Users :
          /\ ReferralTx(u)' > ReferralTx(u) =>
                /\ ~users[u].exists
                /\ users'[u].exists
                /\ users'[u].invited_by \notin {NoId, u}
                /\ users'[users'[u].invited_by].balance =
                       users[users'[u].invited_by].balance + settings.referral_bonus
          /\ ReferralTx(u)' <= 1]_vars

\* user 2 arrived through user 1's link, which credited user 1 once, and has
\* gone on to the group step
C37_Witness ==
    /\ ReferralTx(2) = 1
    /\ users[2].invited_by = 1
    /\ users[1].balance >= SIGNUP_BONUS + REFERRAL_BONUS
    /\ user_states[2] = JOINING_GROUPS

\* C38: whenever a user's has_received_group_bonus flag is set, the group-join
\* bonus has been credited to that user, also when add_balance failed after
\* the update of the flag.
C38_FlagMeansCredited ==
    \A u \in Users : users[u].has_received_group_bonus => GroupRows(u) >= 1

\* the first stage of onboarding that the stored profile of u has not
\* completed, as a conversational state
FirstIncomplete(u) ==
    IF users[u].telegram_handle = <<>> THEN SETTING_TELEGRAM
    ELSE IF users[u].twitter_handle = <<>> THEN SETTING_TWITTER
    ELSE IF ~users[u].joined_all_groups THEN JOINING_GROUPS
    ELSE MAIN

\* C39: for a user with a profile, /start puts the user at the first
\* incomplete stage (first handle, second handle, groups, else MAIN), creates
\* no profile and credits no bonus.
C39_StartResumes ==
    \A u \in Users, arg \in StartArgs :
        users[u].exists =>
            /\ start(Cur, u, arg).st[u] = FirstIncomplete(u)
            /\ start(Cur, u, arg).users = users
            /\ start(Cur, u, arg).tx = transactions
            /\ start(Cur, u, arg).refs = referrals

\* the text is input that the handler of user u's awaiting-input state accepts
ValidInput(u, text) ==
    \/ user_states[u] = SETTING_TELEGRAM /\ WellFormedHandle(Strip(text), 5, 32)
    \/ user_states[u] = SETTING_TWITTER /\ WellFormedHandle(Strip(text), 1, 15)
    \/ user_states[u] = SETTING_WALLET /\ WellFormedAddress(Strip(text))
    \/ user_states[u] = WITHDRAWING /\ ~Rejectable(u, text)

\* C40: while a user is in an awaiting-input state, a message whose text is a
\* menu button, 'Back to Menu' included, is input for that state: it runs no
\* menu action and, being invalid input, changes nothing; the state is left
\* only by a valid input or by /start.
C40_ButtonsAreInput ==
    [][\A u \in Users :
          user_states[u] \in AwaitingInput =>
              /\ \A text \in Buttons : handle_message(Cur, u, text) = Cur
              /\ user_states'[u] # user_states[u] =>
                    \/ \E arg \in StartArgs : user_states' = start(Cur, u, arg).st
                    \/ \E text \in Texts \ Buttons :
                          ValidInput(u, text) /\ user_states' = handle_message(Cur, u, text).st]_vars

\* user 1 is asked for an amount and user 2 for a wallet address, and the Back
\* button of either changes nothing
C40_Witness ==
    /\ user_states[1] = WITHDRAWING
    /\ user_states[2] = SETTING_WALLET
    /\ handle_message(Cur, 1, BTN_BACK) = Cur
    /\ handle_message(Cur, 2, BTN_BACK) = Cur

====
